---- MODULE Spec2Model ----
(***************************************************************************)
(* Travel expense tracker: the IndexedDB data layer (db.js) and the app    *)
(* handlers that drive it.  The record store is four keyed object stores;  *)
(* every operation of db.js runs its requests inside one IndexedDB         *)
(* transaction, whose writes become visible at its complete event or are   *)
(* discarded at its abort event.                                           *)
(***************************************************************************)
EXTENDS Integers, Sequences, FiniteSets, TLC

VARIABLES
  db,       \* the committed object stores
  tx,       \* the transaction in flight
  outcome,  \* the promise of the data-layer call made last
  state,    \* the app's in-memory state object
  handler,  \* the app handler that is awaiting a data-layer call
  bound,    \* main has bound the event handlers
  status,   \* the message in the status line
  els,          \* the page's form fields and rendered figures
  localStorage  \* the tripDefaults_<id> entries of localStorage

vars == <<db, tx, outcome, state, handler, bound, status, els, localStorage>>

appVars == <<state, handler, bound, status, els, localStorage>>

----------------------------------------------------------------------------
(* Constants of db.js *)

SCHEMA_VERSION == "1.0.0"

DEFAULT_SETTINGS ==
  [categories |-> << "Flights", "Lodging", "Local transport", "Food & drinks",
                     "Attractions", "Shopping", "SIM/Internet",
                     "Fees (ATM/baggage/etc.)", "Misc", "Souvenirs" >>,
   paymentMethods |-> << "Cash", "Wise", "Apple Pay", "Other" >>]

----------------------------------------------------------------------------
(* Values.  A JavaScript value that may be undefined is a set: {} is       *)
(* undefined, {v} is v.                                                    *)

\* no transaction is in flight
NoTx == [op |-> "none"]

undefined == {}

Some(v) == {v}

ValueOf(m) == CHOOSE v \in m : TRUE

\* m || d for a value m that is truthy whenever it is defined (arrays, records)
OrElse(m, d) == IF m = undefined THEN d ELSE ValueOf(m)

\* m || d for a string m: the empty string is falsy
OrElseString(m, d) == IF m = undefined \/ m = {""} THEN d ELSE ValueOf(m)

\* payload.config?.field
OptionalField(config, field) ==
  IF config = undefined THEN undefined ELSE ValueOf(config)[field]

----------------------------------------------------------------------------
(* Bounds and input domains *)

\* records (trips plus expenses) in one restore payload
MaxPayloadRecs == 2

TripIds == {"t1", "t2"}

\* the primary-key order of the trips store
TripIdOrder == << "t1", "t2" >>

ExpIds == {"e1", "e2"}

\* the primary-key order of the expenses store
ExpIdOrder == << "e1", "e2" >>

\* the id of a record that has no usable key (missing or not a valid key)
NoKey == ""

Currencies == {"JPY", "USD"}

Trip(i, c) == [id |-> i, baseCurrency |-> c]

Expense(i, t) == [id |-> i, tripId |-> t]

ApiTrips == {Trip(i, c) : i \in TripIds, c \in Currencies}

ApiExpenses == {Expense(i, t) : i \in ExpIds, t \in TripIds}

PayloadTrips == {Trip("t1", "JPY"), Trip("t2", "USD"), Trip(NoKey, "JPY")}

PayloadExpenses == {Expense("e1", "t1"), Expense("e2", "t1"), Expense(NoKey, "t1")}

SeqsUpTo(S, n) == UNION {[1..k -> S] : k \in 0..n}

\* lists a user or a backup file supplies in place of the defaults
CustomCategories == << "Food" >>

CustomPayments == << "Card" >>

ConfigsOver(categoryLists, paymentLists) ==
  {undefined} \cup
  {Some([categories |-> c, paymentMethods |-> p]) :
     c \in {undefined} \cup {Some(l) : l \in categoryLists},
     p \in {undefined} \cup {Some(l) : l \in paymentLists}}

PayloadConfigs == ConfigsOver({CustomCategories}, {CustomPayments})

Payload(sv, cfg, ts, es) ==
  [schemaVersion |-> sv, config |-> cfg, trips |-> ts, expenses |-> es]

\* payloads that vary the records, and payloads that vary config and marker
RecordPayloads ==
  {Payload(undefined, undefined, Some(ts), Some(es)) :
     <<ts, es>> \in {p \in SeqsUpTo(PayloadTrips, MaxPayloadRecs)
                              \X SeqsUpTo(PayloadExpenses, MaxPayloadRecs) :
                       Len(p[1]) + Len(p[2]) <= MaxPayloadRecs}}

ConfigPayloads ==
  {Payload(sv, cfg, Some(<< >>), Some(<< >>)) :
     sv \in {undefined, Some("0.9.0")}, cfg \in PayloadConfigs}

ShapelessPayloads ==
  {Payload(undefined, undefined, undefined, undefined),
   Payload(undefined, undefined, Some(<< >>), undefined),
   Payload(undefined, undefined, undefined, Some(<< >>))}

----------------------------------------------------------------------------
(* The object stores (openDb): meta and settings keyed by `key`, trips and *)
(* expenses keyed by `id`.  A store is the set of its records.             *)

StoreNames == {"meta", "settings", "trips", "expenses"}

KeyOf(store, r) == IF store \in {"meta", "settings"} THEN r.key ELSE r.id

EmptyDb == [meta |-> {}, settings |-> {}, trips |-> {}, expenses |-> {}]

\* IDBObjectStore.get: the record under the key, or undefined
StoreGet(d, store, key) == {r \in d[store] : KeyOf(store, r) = key}

\* variant: put adds the record beside the one it should replace
StorePutBeside(d, store, r) == [d EXCEPT ![store] = @ \cup {r}]

StorePut(d, store, r) ==
  [d EXCEPT ![store] = {x \in @ : KeyOf(store, x) # KeyOf(store, r)} \cup {r}]

StoreDelete(d, store, key) ==
  [d EXCEPT ![store] = {x \in @ : KeyOf(store, x) # key}]

StoreClear(d, store) == [d EXCEPT ![store] = {}]

\* the tripId index of the expenses store
IndexTripId(d, tripId) == {e \in d.expenses : e.tripId = tripId}

ExpOrd(id) == CHOOSE k \in 1..Len(ExpIdOrder) : ExpIdOrder[k] = id

----------------------------------------------------------------------------
(* Requests *)

PutReq(store, r) == [kind |-> "put", store |-> store, arg |-> r]

DeleteReq(store, key) == [kind |-> "delete", store |-> store, arg |-> key]

ClearReq(store) == [kind |-> "clear", store |-> store, arg |-> ""]

GetReq(store, key) == [kind |-> "get", store |-> store, arg |-> key]

CursorReq(tripId, pos) ==
  [kind |-> "cursor", store |-> "expenses", arg |-> [only |-> tripId, pos |-> pos]]

\* put throws DataError, before any request is made, when the key path
\* yields no valid key
PutThrows(q) == q.kind = "put" /\ KeyOf(q.store, q.arg) = NoKey

ApplyReq(d, q) ==
  CASE q.kind = "put" -> StorePut(d, q.store, q.arg)
    [] q.kind = "delete" -> StoreDelete(d, q.store, q.arg)
    [] q.kind = "clear" -> StoreClear(d, q.store)
    [] OTHER -> d

RECURSIVE ApplyAll(_, _)
\* the store after the requests have run in order and committed
ApplyAll(d, calls) ==
  IF calls = << >> THEN d ELSE ApplyAll(ApplyReq(d, Head(calls)), Tail(calls))

RECURSIVE Issued(_)
\* the requests a handler has made when it returns or throws: the calls in
\* program order up to the first one that throws
Issued(calls) ==
  IF calls = << >> \/ PutThrows(Head(calls)) THEN << >>
  ELSE << Head(calls) >> \o Issued(Tail(calls))

Throws(calls) == \E k \in 1..Len(calls) : PutThrows(calls[k])

----------------------------------------------------------------------------
(* The operations of db.js: the store calls each handler makes, in order   *)

PutAll(store, records) ==
  [k \in 1..Len(records) |-> PutReq(store, records[k])]

initializeDb == << GetReq("meta", "schemaVersion") >>

saveSettings(settings) ==
  << PutReq("settings", [key |-> "categories", value |-> settings.categories]),
     PutReq("settings", [key |-> "paymentMethods", value |-> settings.paymentMethods]) >>

upsertTrip(trip) == << PutReq("trips", trip) >>

\* variant: the trip is removed and its expenses are left
deleteTripCascadeTripOnly(tripId) == << DeleteReq("trips", tripId) >>

\* variant: the trip's expenses are removed and the trip itself is left
deleteTripCascadeExpensesOnly(tripId) == << CursorReq(tripId, 0) >>

deleteTripCascade(tripId) == << DeleteReq("trips", tripId), CursorReq(tripId, 0) >>

upsertExpense(expense) == << PutReq("expenses", expense) >>

deleteExpense(id) == << DeleteReq("expenses", id) >>

SeedRequests(schemaVersion, categories, paymentMethods) ==
  << PutReq("meta", [key |-> "schemaVersion", value |-> schemaVersion]),
     PutReq("settings", [key |-> "categories", value |-> categories]),
     PutReq("settings", [key |-> "paymentMethods", value |-> paymentMethods]) >>

ClearRequests ==
  << ClearReq("trips"), ClearReq("expenses"), ClearReq("meta"), ClearReq("settings") >>

clearAllData ==
  ClearRequests \o
  SeedRequests(SCHEMA_VERSION, DEFAULT_SETTINGS.categories, DEFAULT_SETTINGS.paymentMethods)

\* variant: the payload is written over the stores without clearing them
restoreBackupNoClear(payload) ==
  SeedRequests(OrElseString(payload.schemaVersion, SCHEMA_VERSION),
               OrElse(OptionalField(payload.config, "categories"),
                      DEFAULT_SETTINGS.categories),
               OrElse(OptionalField(payload.config, "paymentMethods"),
                      DEFAULT_SETTINGS.paymentMethods)) \o
  PutAll("trips", OrElse(payload.trips, << >>)) \o
  PutAll("expenses", OrElse(payload.expenses, << >>))

restoreBackup(payload) ==
  ClearRequests \o
  SeedRequests(OrElseString(payload.schemaVersion, SCHEMA_VERSION),
               OrElse(OptionalField(payload.config, "categories"),
                      DEFAULT_SETTINGS.categories),
               OrElse(OptionalField(payload.config, "paymentMethods"),
                      DEFAULT_SETTINGS.paymentMethods)) \o
  PutAll("trips", OrElse(payload.trips, << >>)) \o
  PutAll("expenses", OrElse(payload.expenses, << >>))

\* the read operations, as what a read-only transaction returns from the
\* committed stores
getSchemaVersion(d) ==
  LET row == StoreGet(d, "meta", "schemaVersion")
  IN  IF row = undefined THEN SCHEMA_VERSION ELSE ValueOf(row).value

getSettings(d) ==
  LET categories == StoreGet(d, "settings", "categories")
      paymentMethods == StoreGet(d, "settings", "paymentMethods")
  IN  [categories |-> IF categories = undefined THEN DEFAULT_SETTINGS.categories
                      ELSE ValueOf(categories).value,
       paymentMethods |-> IF paymentMethods = undefined
                          THEN DEFAULT_SETTINGS.paymentMethods
                          ELSE ValueOf(paymentMethods).value]

RECURSIVE InKeyOrder(_, _)
\* getAll returns the records in primary-key order
InKeyOrder(records, order) ==
  IF order = << >> THEN << >>
  ELSE LET here == {r \in records : r.id = Head(order)}
       IN  (IF here = {} THEN << >> ELSE << ValueOf(here) >>)
             \o InKeyOrder(records, Tail(order))

getTrips(d) == InKeyOrder(d.trips, TripIdOrder)

getTripById(d, id) == StoreGet(d, "trips", id)

getExpensesByTrip(d, tripId) == IndexTripId(d, tripId)

getAllExpenses(d) == d.expenses

getExpenseById(d, id) == StoreGet(d, "expenses", id)

----------------------------------------------------------------------------
(* Success callbacks that make further requests in the same transaction    *)

\* variant: the cursor runs over the expenses of every trip
CursorAtAnyTrip(d, only, pos) ==
  LET rest == {e \in d.expenses : ExpOrd(e.id) > pos}
  IN  IF rest = {} THEN undefined
      ELSE Some(CHOOSE e \in rest : \A f \in rest : ExpOrd(e.id) <= ExpOrd(f.id))

\* deleteTripCascade's cursor: the first expense of the trip after the
\* cursor's position, in primary-key order
CursorAt(d, only, pos) ==
  LET rest == {e \in IndexTripId(d, only) : ExpOrd(e.id) > pos}
  IN  IF rest = {} THEN undefined
      ELSE Some(CHOOSE e \in rest : \A f \in rest : ExpOrd(e.id) <= ExpOrd(f.id))

\* variant: the cursor deletes the record it is on and is not continued
CursorOnSuccessNoContinue(d, q) ==
  LET cursor == CursorAt(d, q.arg.only, q.arg.pos)
  IN  IF cursor = undefined THEN << >>
      ELSE << DeleteReq("expenses", ValueOf(cursor).id) >>

CursorOnSuccess(d, q) ==
  LET cursor == CursorAt(d, q.arg.only, q.arg.pos)
  IN  IF cursor = undefined THEN << >>
      ELSE << DeleteReq("expenses", ValueOf(cursor).id),
              CursorReq(q.arg.only, ExpOrd(ValueOf(cursor).id)) >>

\* variant: the default is written whether or not the key is there
SeedAlways(d, q, default) ==
  << PutReq(q.store, [key |-> q.arg, value |-> default]) >>

\* initializeDb: after each get, seed the key if it is absent, then get the
\* next key
SeedIfAbsent(d, q, default) ==
  IF StoreGet(d, q.store, q.arg) = undefined
  THEN << PutReq(q.store, [key |-> q.arg, value |-> default]) >>
  ELSE << >>

\* variant: the marker alone decides: without it all three keys are
\* seeded, with it none is looked at
InitializeOnSuccessCoupled(d, q) ==
  IF StoreGet(d, q.store, q.arg) = undefined
  THEN << PutReq("meta", [key |-> "schemaVersion", value |-> SCHEMA_VERSION]),
          PutReq("settings", [key |-> "categories",
                              value |-> DEFAULT_SETTINGS.categories]),
          PutReq("settings", [key |-> "paymentMethods",
                              value |-> DEFAULT_SETTINGS.paymentMethods]) >>
  ELSE << >>

InitializeOnSuccess(d, q) ==
  CASE q.arg = "schemaVersion" ->
         SeedIfAbsent(d, q, SCHEMA_VERSION) \o << GetReq("settings", "categories") >>
    [] q.arg = "categories" ->
         SeedIfAbsent(d, q, DEFAULT_SETTINGS.categories)
           \o << GetReq("settings", "paymentMethods") >>
    [] q.arg = "paymentMethods" ->
         SeedIfAbsent(d, q, DEFAULT_SETTINGS.paymentMethods)

OnSuccess(d, q) ==
  CASE q.kind = "cursor" -> CursorOnSuccess(d, q)
    [] q.kind = "get" -> InitializeOnSuccess(d, q)
    [] OTHER -> << >>

----------------------------------------------------------------------------
(* Transactions.  tx is the transaction in flight: the requests made and   *)
(* not yet run, and the stores as the transaction sees them (work).  db is *)
(* what every other transaction reads: it changes only at the complete     *)
(* event.  outcome is the promise the operation returned to its caller.    *)

\* runTx up to the handler's return or throw: the handler runs in the new
\* transaction; if it throws, runTx rejects at once and nothing aborts the
\* transaction, which goes on to run the requests already made
runTx(op, arg, calls) ==
  /\ tx = NoTx
  /\ tx' = [op |-> op, arg |-> arg, pending |-> Issued(calls), work |-> db,
            thrown |-> Throws(calls)]
  /\ outcome' = IF Throws(calls) THEN "rejected" ELSE "pending"
  /\ UNCHANGED db

\* a request succeeds: its effect is in the transaction's view, and its
\* success callback may make further requests
RequestSuccess ==
  /\ tx # NoTx
  /\ tx.pending # << >>
  /\ LET q == Head(tx.pending)
         work == ApplyReq(tx.work, q)
     IN  tx' = [tx EXCEPT !.work = work,
                          !.pending = Tail(@) \o OnSuccess(work, q)]
  /\ UNCHANGED <<db, outcome>>
  /\ UNCHANGED appVars

\* a request fails: no handler prevents the default, so the transaction
\* aborts and the promise rejects
RequestError ==
  /\ tx # NoTx
  /\ tx.pending # << >>
  /\ tx' = NoTx
  /\ outcome' = "rejected"
  /\ UNCHANGED db
  /\ UNCHANGED appVars

\* variant: the complete event finds no listener, the promise stays as it is
TxCompleteUnheard ==
  /\ tx # NoTx
  /\ tx.pending = << >>
  /\ db' = tx.work
  /\ tx' = NoTx
  /\ UNCHANGED outcome
  /\ UNCHANGED appVars

\* no request is left: the transaction commits and its complete event
\* resolves txDone, if the handler did not throw
TxComplete ==
  /\ tx # NoTx
  /\ tx.pending = << >>
  /\ db' = tx.work
  /\ tx' = NoTx
  /\ outcome' = IF tx.thrown THEN "rejected" ELSE "resolved"
  /\ UNCHANGED appVars

\* the commit itself fails (quota, I/O): abort
TxAbort ==
  /\ tx # NoTx
  /\ tx.pending = << >>
  /\ tx' = NoTx
  /\ outcome' = "rejected"
  /\ UNCHANGED db
  /\ UNCHANGED appVars

----------------------------------------------------------------------------
(* Calls of the data layer *)

CategoryLists == {DEFAULT_SETTINGS.categories, CustomCategories}

PaymentLists == {DEFAULT_SETTINGS.paymentMethods, CustomPayments}

ApiPayloads == RecordPayloads \cup ConfigPayloads \cup ShapelessPayloads

CallInitializeDb ==
  /\ runTx("initializeDb", "", initializeDb)
  /\ UNCHANGED appVars

CallSaveSettings ==
  /\ \E c \in CategoryLists, p \in PaymentLists :
       LET settings == [categories |-> c, paymentMethods |-> p]
       IN  runTx("saveSettings", settings, saveSettings(settings))
  /\ UNCHANGED appVars

CallUpsertTrip ==
  /\ \E trip \in ApiTrips : runTx("upsertTrip", trip, upsertTrip(trip))
  /\ UNCHANGED appVars

CallDeleteTripCascade ==
  /\ \E tripId \in TripIds :
       runTx("deleteTripCascade", tripId, deleteTripCascade(tripId))
  /\ UNCHANGED appVars

CallUpsertExpense ==
  /\ \E expense \in ApiExpenses :
       runTx("upsertExpense", expense, upsertExpense(expense))
  /\ UNCHANGED appVars

CallDeleteExpense ==
  /\ \E id \in ExpIds : runTx("deleteExpense", id, deleteExpense(id))
  /\ UNCHANGED appVars

CallClearAllData ==
  /\ runTx("clearAllData", "", clearAllData)
  /\ UNCHANGED appVars

CallRestoreBackup ==
  /\ \E payload \in ApiPayloads :
       runTx("restoreBackup", payload, restoreBackup(payload))
  /\ UNCHANGED appVars

----------------------------------------------------------------------------
(* JavaScript numbers.  A number a form field, a record or a backup file   *)
(* holds is named by its decimal numeral, an integer count of thousandths; *)
(* arithmetic on it is IEEE-754 double arithmetic, computed here on        *)
(* naturals of any size: 15-bit limbs, least significant first, no zero    *)
(* limb at the top.                                                        *)

Scale == 10^3

Base == 2^15

RECURSIVE BigOf(_)
BigOf(n) == IF n = 0 THEN << >> ELSE << n % Base >> \o BigOf(n \div Base)

RECURSIVE BigToInt(_)
BigToInt(x) == IF x = << >> THEN 0 ELSE Head(x) + Base * BigToInt(Tail(x))

RECURSIVE Trimmed(_)
Trimmed(x) ==
  IF x = << >> THEN << >>
  ELSE IF x[Len(x)] = 0 THEN Trimmed(SubSeq(x, 1, Len(x) - 1)) ELSE x

RECURSIVE BigAddCarry(_, _, _)
BigAddCarry(x, y, carry) ==
  IF x = << >> /\ y = << >> THEN BigOf(carry)
  ELSE LET a == IF x = << >> THEN 0 ELSE Head(x)
           b == IF y = << >> THEN 0 ELSE Head(y)
           t == a + b + carry
       IN  << t % Base >>
             \o BigAddCarry(IF x = << >> THEN x ELSE Tail(x),
                            IF y = << >> THEN y ELSE Tail(y), t \div Base)

BigAdd(x, y) == Trimmed(BigAddCarry(x, y, 0))

RECURSIVE BigMulSmallCarry(_, _, _)
BigMulSmallCarry(x, k, carry) ==
  IF x = << >> THEN BigOf(carry)
  ELSE LET t == Head(x) * k + carry
       IN  << t % Base >> \o BigMulSmallCarry(Tail(x), k, t \div Base)

\* x * k for 0 <= k < Base
BigMulSmall(x, k) == Trimmed(BigMulSmallCarry(x, k, 0))

RECURSIVE BigMul(_, _)
BigMul(x, y) ==
  IF x = << >> \/ y = << >> THEN << >>
  ELSE BigAdd(BigMulSmall(x, Head(y)), Trimmed(<< 0 >> \o BigMul(x, Tail(y))))

RECURSIVE BigDivMod(_, _)
\* quotient and remainder of x by d, for 0 < d < Base
BigDivMod(x, d) ==
  IF x = << >> THEN [q |-> << >>, r |-> 0]
  ELSE LET hi == BigDivMod(Tail(x), d)
           t == hi.r * Base + Head(x)
       IN  [q |-> << t \div d >> \o hi.q, r |-> t % d]

BigDiv(x, d) == Trimmed(BigDivMod(x, d).q)

Zeros(n) == [k \in 1..n |-> 0]

ShiftLeft(x, k) ==
  IF x = << >> THEN << >>
  ELSE BigMulSmall(Zeros(k \div 15) \o x, 2^(k % 15))

ShiftRight(x, k) ==
  IF k \div 15 >= Len(x) THEN << >>
  ELSE BigDiv(SubSeq(x, k \div 15 + 1, Len(x)), 2^(k % 15))

RECURSIVE IntBitLen(_)
IntBitLen(n) == IF n = 0 THEN 0 ELSE 1 + IntBitLen(n \div 2)

BitLen(x) == IF x = << >> THEN 0 ELSE 15 * (Len(x) - 1) + IntBitLen(x[Len(x)])

\* bit i of x, bit 0 the least significant
Bit(x, i) ==
  IF i \div 15 + 1 > Len(x) THEN 0 ELSE (x[i \div 15 + 1] \div 2^(i % 15)) % 2

\* x shifted right by s >= 1 bits, rounded to nearest, ties to even; inexact
\* tells that x stands for a value slightly above x
RoundShift(x, s, inexact) ==
  LET q == ShiftRight(x, s)
      half == Bit(x, s - 1) = 1
      sticky == inexact \/ ShiftLeft(ShiftRight(x, s - 1), s - 1) # x
      up == half /\ (sticky \/ Bit(q, 0) = 1)
  IN  IF up THEN BigAdd(q, << 1 >>) ELSE q

\* the double nearest to m * 2^e (m zero or of 53 bits or more): a
\* 53-bit significand and its exponent, or zero
Rounded(m, e, inexact) ==
  LET s == BitLen(m) - 53
      q == RoundShift(m, s, inexact)
  IN  IF m = << >> THEN [m |-> << >>, e |-> 0]
      ELSE IF s = 0 THEN [m |-> m, e |-> e]
      ELSE IF BitLen(q) = 54 THEN [m |-> ShiftRight(q, 1), e |-> e + s + 1]
      ELSE [m |-> q, e |-> e + s]

\* the double nearest to n / d, for n >= 0 and 0 < d < Base
DoubleOfRatio(n, d) ==
  LET k == 55 + IntBitLen(d)
      qr == BigDivMod(ShiftLeft(BigOf(n), k), d)
  IN  Rounded(Trimmed(qr.q), 0 - k, qr.r # 0)

\* Number(text) of the numeral
Double(numeral) == DoubleOfRatio(numeral, Scale)

\* x * y
Times(x, y) == Rounded(BigMul(x.m, y.m), x.e + y.e, FALSE)

\* x + y, for x and y not negative
Plus(x, y) ==
  IF x.m = << >> THEN y
  ELSE IF y.m = << >> THEN x
  ELSE LET e == IF x.e < y.e THEN x.e ELSE y.e
       IN  Rounded(BigAdd(ShiftLeft(x.m, x.e - e), ShiftLeft(y.m, y.e - e)), e, FALSE)

RECURSIVE BigLess(_, _)
BigLess(x, y) ==
  IF Len(x) # Len(y) THEN Len(x) < Len(y)
  ELSE IF x = << >> THEN FALSE
  ELSE IF x[Len(x)] # y[Len(y)] THEN x[Len(x)] < y[Len(y)]
  ELSE BigLess(SubSeq(x, 1, Len(x) - 1), SubSeq(y, 1, Len(y) - 1))

\* x < y, for x and y not negative
Less(x, y) ==
  IF x.m = << >> THEN y.m # << >>
  ELSE IF y.m = << >> THEN FALSE
  ELSE x.e < y.e \/ (x.e = y.e /\ BigLess(x.m, y.m))

RECURSIVE BigSubBorrow(_, _, _)
BigSubBorrow(x, y, borrow) ==
  IF x = << >> THEN << >>
  ELSE LET b == IF y = << >> THEN 0 ELSE Head(y)
           t == Head(x) - b - borrow
       IN  << t % Base >>
             \o BigSubBorrow(Tail(x), IF y = << >> THEN y ELSE Tail(y),
                             IF t < 0 THEN 1 ELSE 0)

\* x - y for x >= y
BigSub(x, y) == Trimmed(BigSubBorrow(x, y, 0))

\* the double m * 2^e, for m of 53 bits or fewer
Exactly(m, e) ==
  IF m = << >> THEN [m |-> << >>, e |-> 0]
  ELSE [m |-> ShiftLeft(m, 53 - BitLen(m)), e |-> e - (53 - BitLen(m))]

\* x - y, for x and y not negative: the magnitude of the difference and
\* whether it is below zero
Minus(x, y) ==
  LET e == IF x.m = << >> THEN y.e ELSE IF y.m = << >> THEN x.e
           ELSE IF x.e < y.e THEN x.e ELSE y.e
      a == ShiftLeft(x.m, x.e - e)
      b == ShiftLeft(y.m, y.e - e)
      d == IF Less(x, y) THEN BigSub(b, a) ELSE BigSub(a, b)
  IN  [negative |-> Less(x, y),
       magnitude |-> IF BitLen(d) < 53 THEN Exactly(d, e) ELSE Rounded(d, e, FALSE)]

\* x / n, for x not negative and 0 < n < Base
DividedBy(x, n) ==
  LET k == 2 + IntBitLen(n)
      qr == BigDivMod(ShiftLeft(x.m, k), n)
  IN  Rounded(Trimmed(qr.q), x.e - k, qr.r # 0)

\* Math.round(x): the nearest integer, a tie going up
MathRound(x) ==
  IF x.e >= 0 THEN BigToInt(ShiftLeft(x.m, x.e))
  ELSE BigToInt(ShiftRight(x.m, 0 - x.e)) + Bit(x.m, 0 - x.e - 1)

\* the numeral of the integer n, and of n / 100
Whole(n) == n * Scale

Hundredths(n) == n * (Scale \div 100)

roundBaseAmount(raw, baseCurrency) ==
  IF baseCurrency = "JPY" THEN Whole(MathRound(raw))
  ELSE Hundredths(MathRound(Times(raw, Double(Whole(100)))))

----------------------------------------------------------------------------
(* The app: its state object and the pure parts of its handlers            *)

\* a null id or reference
null == ""

InitialState ==
  [settings |-> [categories |-> << >>, paymentMethods |-> << >>],
   trips |-> << >>,
   activeTripId |-> "",
   expenses |-> {},
   filters |-> [startDate |-> "", endDate |-> "", category |-> "All",
                payment |-> "All", search |-> << >>],
   editingTripId |-> null,
   editingExpenseId |-> null,
   pendingRestore |-> undefined]

\* the expense form before anything is typed, its preview line, and the
\* dashboard's figures before they are rendered (the numbers, unformatted)
InitialEls ==
  [expAmountOriginal |-> undefined,
   expCurrency |-> "",
   expFx |-> undefined,
   amountBasePreview |-> [text |-> "-"],
   totalSpent |-> undefined,
   categoryTable |-> << >>,
   paymentTable |-> << >>,
   dailyChart |-> << >>,
   budgetPanel |-> [label |-> "Budget", value |-> "-"],
   expenseList |-> << >>]

\* no trip has defaults from an earlier expense
InitialLocalStorage == [id \in TripIds |-> undefined]

Idle == [name |-> "idle"]

TripIdsOf(trips) == {trips[k].id : k \in DOMAIN trips}

activeTrip(s) ==
  {s.trips[k] : k \in {j \in DOMAIN s.trips : s.trips[j].id = s.activeTripId}}

loadExpenses(s, d) ==
  LET trip == activeTrip(s)
  IN  IF trip = undefined THEN [s EXCEPT !.expenses = {}]
      ELSE [s EXCEPT !.expenses = getExpensesByTrip(d, ValueOf(trip).id)]

\* loadAll up to its call of loadExpenses
loadAllTrips(s, d) ==
  LET trips == getTrips(d)
      first == IF trips = << >> THEN "" ELSE trips[1].id
      picked == IF s.activeTripId = "" /\ trips # << >> THEN first
                ELSE s.activeTripId
      active == IF picked # "" /\ picked \notin TripIdsOf(trips) THEN first
                ELSE picked
  IN  [s EXCEPT !.settings = getSettings(d),
                !.trips = trips,
                !.activeTripId = active]

loadAll(s, d) == loadExpenses(loadAllTrips(s, d), d)

fillTripForm(s, tripId) == [s EXCEPT !.editingTripId = tripId]

setExpenseDefaults(s) ==
  IF activeTrip(s) = undefined THEN s ELSE [s EXCEPT !.editingExpenseId = null]

refreshUI(s) == setExpenseDefaults(s)

\* uid: an id no record has
uid(ids, used) == ids \ used

UsedTripIds == {t.id : t \in db.trips} \cup TripIdsOf(state.trips)

UsedExpIds == {e.id : e \in db.expenses} \cup {e.id : e \in state.expenses}

\* the settings form: one entry per line, trimmed, blank lines dropped
Trim(line) == IF line \in {" ", ""} THEN "" ELSE line

RECURSIVE ParseLines(_)
ParseLines(lines) ==
  IF lines = << >> THEN << >>
  ELSE (IF Trim(Head(lines)) = "" THEN << >> ELSE << Trim(Head(lines)) >>)
         \o ParseLines(Tail(lines))

\* variant: only the trips array is required
ValidBackupTripsOnly(payload) == payload.trips # undefined

\* handleRestoreFileChange: Array.isArray(payload.trips) and
\* Array.isArray(payload.expenses)
ValidBackup(payload) == payload.trips # undefined /\ payload.expenses # undefined

collectBackupPayload(s, d) ==
  Payload(Some(SCHEMA_VERSION),
          Some([categories |-> Some(s.settings.categories),
                paymentMethods |-> Some(s.settings.paymentMethods)]),
          Some(s.trips),
          Some(InKeyOrder(getAllExpenses(d), ExpIdOrder)))

----------------------------------------------------------------------------
(* The app's handlers.  A handler that awaits a data-layer write is in     *)
(* flight (handler) from the call to the settling of its promise; the      *)
(* reads it awaits run as read-only transactions once no write             *)
(* transaction is in flight.  status is the text setStatus has put in the  *)
(* status line.                                                            *)

Await(name) ==
  /\ handler.name = name
  /\ outcome \in {"resolved", "rejected"}
  /\ handler' = Idle

Resolved == outcome = "resolved"

\* the timer of setStatus clears the message it has set; the startup error
\* is written without a timer
StatusTimeout ==
  /\ status \notin {"", "Startup error"}
  /\ status' = ""
  /\ UNCHANGED <<db, tx, outcome, state, handler, bound>>
  /\ UNCHANGED <<els, localStorage>>

\* main, on page load: the in-memory state and the page are new, the active
\* trip id comes from localStorage
PageLoad ==
  /\ handler = Idle
  /\ runTx("initializeDb", "", initializeDb)
  /\ state' = [InitialState EXCEPT !.activeTripId = state.activeTripId]
  /\ bound' = FALSE
  /\ status' = ""
  /\ handler' = [name |-> "main"]
  /\ UNCHANGED <<els, localStorage>>

MainLoaded ==
  /\ Await("main")
  /\ IF Resolved
     THEN /\ state' = refreshUI(fillTripForm(loadAll(state, db), null))
          /\ bound' = TRUE
          /\ UNCHANGED status
     ELSE /\ status' = "Startup error"
          /\ UNCHANGED <<state, bound>>
  /\ UNCHANGED <<db, tx, outcome>>
  /\ UNCHANGED <<els, localStorage>>

\* variant: the change is refused only from the second expense on
baseCurrencyChangeBlockedOverOne(old, newTrip, d) ==
  /\ old # undefined
  /\ ValueOf(old).baseCurrency # newTrip.baseCurrency
  /\ Cardinality(getExpensesByTrip(d, ValueOf(old).id)) > 1

\* old && old.baseCurrency !== newTrip.baseCurrency, and the trip has
\* expenses
baseCurrencyChangeBlocked(old, newTrip, d) ==
  /\ old # undefined
  /\ ValueOf(old).baseCurrency # newTrip.baseCurrency
  /\ getExpensesByTrip(d, ValueOf(old).id) # {}

\* handleTripSubmit with a valid form
TripSubmit ==
  /\ bound /\ handler = Idle /\ tx = NoTx
  /\ \E baseCurrency \in Currencies :
       \E id \in IF state.editingTripId # null THEN {state.editingTripId}
                 ELSE uid(TripIds, UsedTripIds) :
         LET newTrip == Trip(id, baseCurrency)
             old == IF state.editingTripId # null
                    THEN getTripById(db, state.editingTripId) ELSE undefined
         IN  IF baseCurrencyChangeBlocked(old, newTrip, db)
             THEN /\ status' = "Base currency cannot be changed once expenses exist for this trip in v1."
                  /\ UNCHANGED <<db, tx, outcome, handler>>
             ELSE /\ runTx("upsertTrip", newTrip, upsertTrip(newTrip))
                  /\ handler' = [name |-> "handleTripSubmit", id |-> id,
                                 wasEditing |-> state.editingTripId # null]
                  /\ UNCHANGED status
  /\ UNCHANGED <<state, bound>>
  /\ UNCHANGED <<els, localStorage>>

TripSubmitted ==
  /\ Await("handleTripSubmit")
  /\ IF Resolved
     THEN LET s == IF state.activeTripId = ""
                   THEN [state EXCEPT !.activeTripId = handler.id] ELSE state
          IN  /\ state' = refreshUI(fillTripForm(loadAll(s, db), null))
              /\ status' = IF handler.wasEditing THEN "Trip updated."
                           ELSE "Trip created."
     ELSE UNCHANGED <<state, status>>
  /\ UNCHANGED <<db, tx, outcome, bound>>
  /\ UNCHANGED <<els, localStorage>>

\* handleTripListClick: set-active, edit, delete
TripSetActive ==
  /\ bound /\ handler = Idle /\ tx = NoTx
  /\ \E tripId \in TripIdsOf(state.trips) :
       state' = refreshUI(loadExpenses([state EXCEPT !.activeTripId = tripId], db))
  /\ UNCHANGED <<db, tx, outcome, handler, bound, status>>
  /\ UNCHANGED <<els, localStorage>>

TripEdit ==
  /\ bound /\ handler = Idle
  /\ \E tripId \in TripIdsOf(state.trips) : state' = fillTripForm(state, tripId)
  /\ UNCHANGED <<db, tx, outcome, handler, bound, status>>
  /\ UNCHANGED <<els, localStorage>>

TripDelete ==
  /\ bound /\ handler = Idle
  /\ \E tripId \in TripIdsOf(state.trips) :
       /\ runTx("deleteTripCascade", tripId, deleteTripCascade(tripId))
       /\ handler' = [name |-> "handleTripListClick", id |-> tripId]
  /\ UNCHANGED <<state, bound, status>>
  /\ UNCHANGED <<els, localStorage>>

TripDeleted ==
  /\ Await("handleTripListClick")
  /\ IF Resolved
     THEN LET s == IF state.activeTripId = handler.id
                   THEN [state EXCEPT !.activeTripId = ""] ELSE state
          IN  /\ state' = refreshUI(fillTripForm(loadAll(s, db), null))
              /\ status' = "Trip deleted."
     ELSE UNCHANGED <<state, status>>
  /\ UNCHANGED <<db, tx, outcome, bound>>
  /\ UNCHANGED <<els, localStorage>>

\* the change handler of the active-trip selector
ActiveTripSelect ==
  /\ bound /\ handler = Idle /\ tx = NoTx
  /\ \E value \in TripIdsOf(state.trips) \cup {""} :
       state' = refreshUI(loadExpenses([state EXCEPT !.activeTripId = value], db))
  /\ UNCHANGED <<db, tx, outcome, handler, bound, status>>
  /\ UNCHANGED <<els, localStorage>>

\* handleExpenseSubmit with a valid form
ExpenseSubmit ==
  /\ bound /\ handler = Idle
  /\ IF activeTrip(state) = undefined
     THEN /\ status' = "Create/select a trip first."
          /\ UNCHANGED <<db, tx, outcome, handler>>
     ELSE /\ \E id \in IF state.editingExpenseId # null
                       THEN {state.editingExpenseId}
                       ELSE uid(ExpIds, UsedExpIds) :
               LET exp == Expense(id, ValueOf(activeTrip(state)).id)
               IN  runTx("upsertExpense", exp, upsertExpense(exp))
          /\ handler' = [name |-> "handleExpenseSubmit",
                         wasEditing |-> state.editingExpenseId # null]
          /\ UNCHANGED status
  /\ UNCHANGED <<state, bound>>
  /\ UNCHANGED <<els, localStorage>>

ExpenseSubmitted ==
  /\ Await("handleExpenseSubmit")
  /\ IF Resolved
     THEN /\ state' = setExpenseDefaults(loadExpenses(state, db))
          /\ status' = IF handler.wasEditing THEN "Expense updated."
                       ELSE "Expense added."
     ELSE UNCHANGED <<state, status>>
  /\ UNCHANGED <<db, tx, outcome, bound>>
  /\ UNCHANGED <<els, localStorage>>

\* handleExpenseListClick: edit-expense, delete-expense
ExpenseEdit ==
  /\ bound /\ handler = Idle /\ tx = NoTx
  /\ \E shown \in state.expenses :
       LET exp == getExpenseById(db, shown.id)
       IN  state' = IF exp = undefined THEN state
                    ELSE [state EXCEPT !.editingExpenseId = ValueOf(exp).id]
  /\ UNCHANGED <<db, tx, outcome, handler, bound, status>>
  /\ UNCHANGED <<els, localStorage>>

ExpenseDelete ==
  /\ bound /\ handler = Idle
  /\ \E shown \in state.expenses :
       runTx("deleteExpense", shown.id, deleteExpense(shown.id))
  /\ handler' = [name |-> "handleExpenseListClick"]
  /\ UNCHANGED <<state, bound, status>>
  /\ UNCHANGED <<els, localStorage>>

ExpenseDeleted ==
  /\ Await("handleExpenseListClick")
  /\ IF Resolved
     THEN /\ state' = loadExpenses(state, db)
          /\ status' = "Expense deleted."
     ELSE UNCHANGED <<state, status>>
  /\ UNCHANGED <<db, tx, outcome, bound>>
  /\ UNCHANGED <<els, localStorage>>

\* variant: the update is rejected only when both lists are empty
emptyListBoth(categories, paymentMethods) ==
  categories = << >> /\ paymentMethods = << >>

\* !categories.length || !paymentMethods.length
emptyList(categories, paymentMethods) ==
  categories = << >> \/ paymentMethods = << >>

\* the settings form's submit handler
SettingsSubmit(categoryLines, paymentLines) ==
  /\ bound /\ handler = Idle
  /\ LET categories == ParseLines(categoryLines)
         payments == ParseLines(paymentLines)
         settings == [categories |-> categories, paymentMethods |-> payments]
     IN  IF emptyList(categories, payments)
         THEN /\ status' = "Categories and payment methods must not be empty."
              /\ UNCHANGED <<db, tx, outcome, handler>>
         ELSE /\ runTx("saveSettings", settings, saveSettings(settings))
              /\ handler' = [name |-> "settingsForm",
                             done |-> "Config lists updated."]
              /\ UNCHANGED status
  /\ UNCHANGED <<state, bound>>
  /\ UNCHANGED <<els, localStorage>>

\* the reset button's click handler
SettingsReset ==
  /\ bound /\ handler = Idle
  /\ runTx("saveSettings", DEFAULT_SETTINGS, saveSettings(DEFAULT_SETTINGS))
  /\ handler' = [name |-> "settingsForm",
                 done |-> "Config lists reset to defaults."]
  /\ UNCHANGED <<state, bound, status>>
  /\ UNCHANGED <<els, localStorage>>

SettingsSaved ==
  /\ Await("settingsForm")
  /\ IF Resolved
     THEN /\ state' = setExpenseDefaults([state EXCEPT !.settings = getSettings(db)])
          /\ status' = handler.done
     ELSE UNCHANGED <<state, status>>
  /\ UNCHANGED <<db, tx, outcome, bound>>
  /\ UNCHANGED <<els, localStorage>>

\* handleRestoreFileChange, to the end of its promise chain
RestoreFileChange(payload) ==
  /\ bound /\ handler = Idle
  /\ IF ValidBackup(payload)
     THEN /\ state' = [state EXCEPT !.pendingRestore = Some(payload)]
          /\ status' = "Backup file loaded. Review summary and confirm restore."
     ELSE /\ state' = [state EXCEPT !.pendingRestore = undefined]
          /\ status' = "Backup must contain trips and expenses arrays."
  /\ UNCHANGED <<db, tx, outcome, handler, bound>>
  /\ UNCHANGED <<els, localStorage>>

\* applyRestore, confirmed
ApplyRestore ==
  /\ bound /\ handler = Idle
  /\ IF state.pendingRestore = undefined
     THEN /\ status' = "Select a valid backup file first."
          /\ UNCHANGED <<db, tx, outcome, handler>>
     ELSE /\ LET payload == ValueOf(state.pendingRestore)
             IN  runTx("restoreBackup", payload, restoreBackup(payload))
          /\ handler' = [name |-> "applyRestore"]
          /\ UNCHANGED status
  /\ UNCHANGED <<state, bound>>
  /\ UNCHANGED <<els, localStorage>>

Restored ==
  /\ Await("applyRestore")
  /\ IF Resolved
     THEN /\ state' = refreshUI(loadAll([state EXCEPT !.pendingRestore = undefined], db))
          /\ status' = "Restore completed."
     ELSE UNCHANGED <<state, status>>
  /\ UNCHANGED <<db, tx, outcome, bound>>
  /\ UNCHANGED <<els, localStorage>>

-----
(* Specifications *)

\* a new browser profile: empty stores, the page not yet loaded
Init ==
  /\ db = EmptyDb
  /\ tx = NoTx
  /\ outcome = "none"
  /\ state = InitialState
  /\ handler = Idle
  /\ bound = FALSE
  /\ status = ""
  /\ els = InitialEls
  /\ localStorage = InitialLocalStorage

Next ==
  \/ CallInitializeDb
  \/ CallSaveSettings
  \/ CallUpsertTrip
  \/ CallDeleteTripCascade
  \/ CallUpsertExpense
  \/ CallDeleteExpense
  \/ CallClearAllData
  \/ CallRestoreBackup
  \/ RequestSuccess
  \/ RequestError
  \/ TxComplete
  \/ TxAbort

\* the data layer, called directly
Spec == Init /\ [][Next]_vars

Transaction == RequestSuccess \/ RequestError \/ TxComplete \/ TxAbort

\* the data layer over a storage whose events arrive: a request made
\* eventually succeeds or fails, a transaction with no request left
\* eventually completes or aborts
SpecFair ==
  /\ Init /\ [][Next]_vars
  /\ WF_vars(RequestSuccess \/ RequestError)
  /\ WF_vars(TxComplete \/ TxAbort)

\* backup files offered to the app: records of either kind, a config, or
\* a document that lacks an array
MaxAppPayloadRecs == 1

\* lines typed into a settings textarea
MaxLines == 2

AppRecordPayloads ==
  {p \in RecordPayloads :
     Len(ValueOf(p.trips)) + Len(ValueOf(p.expenses)) <= MaxAppPayloadRecs}

AppConfigPayloads ==
  {Payload(undefined, cfg, Some(<< >>), Some(<< >>)) :
     cfg \in ConfigsOver({<< >>}, {<< >>})}

\* the app's restore handlers, over stores filled by the trip and expense
\* handlers
NextRestore ==
  \/ PageLoad \/ MainLoaded
  \/ TripSubmit \/ TripSubmitted
  \/ TripDelete \/ TripDeleted
  \/ ExpenseSubmit \/ ExpenseSubmitted
  \/ ExpenseDelete \/ ExpenseDeleted
  \/ \E payload \in AppRecordPayloads \cup ShapelessPayloads :
       RestoreFileChange(payload)
  \/ ApplyRestore \/ Restored
  \/ StatusTimeout
  \/ Transaction

SpecRestore == Init /\ [][NextRestore]_vars

\* the app with its settings and restore handlers
NextSettings ==
  \/ PageLoad \/ MainLoaded
  \/ \E categoryLines \in SeqsUpTo({"Food", " "}, MaxLines),
        paymentLines \in SeqsUpTo({"Card", " "}, MaxLines) :
       SettingsSubmit(categoryLines, paymentLines)
  \/ SettingsReset \/ SettingsSaved
  \/ \E payload \in AppConfigPayloads \cup ShapelessPayloads :
       RestoreFileChange(payload)
  \/ ApplyRestore \/ Restored
  \/ StatusTimeout
  \/ Transaction

SpecSettings == Init /\ [][NextSettings]_vars

----------------------------------------------------------------------------
(* Bootstrap over stores as any earlier run may have left them: each of    *)
(* the three keys absent, at its default, or at another value              *)

OldSchemaVersion == "0.9.0"

KeyStates(default, other) == {undefined, Some(default), Some(other)}

Rows(key, values) == {[key |-> key, value |-> v] : v \in values}

InitBootstrap ==
  /\ \E schemaVersion \in KeyStates(SCHEMA_VERSION, OldSchemaVersion),
        categories \in KeyStates(DEFAULT_SETTINGS.categories, CustomCategories),
        paymentMethods \in KeyStates(DEFAULT_SETTINGS.paymentMethods, CustomPayments) :
       db = [EmptyDb EXCEPT
               !.meta = Rows("schemaVersion", schemaVersion),
               !.settings = Rows("categories", categories)
                              \cup Rows("paymentMethods", paymentMethods)]
  /\ tx = NoTx
  /\ outcome = "none"
  /\ state = InitialState
  /\ handler = Idle
  /\ bound = FALSE
  /\ status = ""
  /\ els = InitialEls
  /\ localStorage = InitialLocalStorage

NextBootstrap ==
  \/ CallInitializeDb
  \/ CallSaveSettings
  \/ Transaction

SpecBootstrap == InitBootstrap /\ [][NextBootstrap]_vars

----------------------------------------------------------------------------
(* The expense form's amount fields and the preview of the base amount     *)

\* Number(field.value): an empty field is 0
NumberOf(field) == IF field = undefined THEN 0 ELSE ValueOf(field)

\* currency === trip.baseCurrency ? 1 : Number(els.expFx.value)
fxRateToBase(currency, trip, expFx) ==
  IF currency = trip.baseCurrency THEN Whole(1) ELSE NumberOf(expFx)

\* variant: the rate is applied only while the expense list is empty
amountBaseByList(amountOriginal, fx, trip) ==
  IF state.expenses = {}
  THEN roundBaseAmount(Times(Double(amountOriginal), Double(fx)), trip.baseCurrency)
  ELSE roundBaseAmount(Double(amountOriginal), trip.baseCurrency)

\* roundBaseAmount(amountOriginal * fxRateToBase, trip.baseCurrency)
amountBase(amountOriginal, fx, trip) ==
  roundBaseAmount(Times(Double(amountOriginal), Double(fx)), trip.baseCurrency)

updateAmountBasePreview(s, e) ==
  LET trip == activeTrip(s)
      amount == NumberOf(e.expAmountOriginal)
      fx == fxRateToBase(e.expCurrency, ValueOf(trip), e.expFx)
  IN  IF trip = undefined \/ ~(amount > 0)
      THEN [e EXCEPT !.amountBasePreview = [text |-> "-"]]
      ELSE IF ~(fx > 0)
      THEN [e EXCEPT !.amountBasePreview = [text |-> "Invalid FX"]]
      ELSE [e EXCEPT !.amountBasePreview =
              [text |-> "amount", amountBase |-> amountBase(amount, fx, ValueOf(trip))]]

\* amounts and rates typed into the form: amounts in quarters, rates in
\* tenths, and one large pair
MaxAmountQuarters == 40

MaxFxTenths == 100

Amounts == {k * (Scale \div 4) : k \in 1..MaxAmountQuarters} \cup {Whole(50)}

FxRates == {k * (Scale \div 10) : k \in 1..MaxFxTenths} \cup {Whole(150)}

\* the stores after bootstrap with one trip
StoresWithTrip(trip) ==
  [ApplyAll(EmptyDb, clearAllData) EXCEPT !.trips = {trip}]

\* the page loaded on a trip, and the form filled in
InitConvert ==
  /\ \E baseCurrency \in Currencies :
       /\ db = StoresWithTrip(Trip("t1", baseCurrency))
       /\ state = refreshUI(fillTripForm(loadAll(InitialState, db), null))
  /\ \E amount \in Amounts, currency \in Currencies, fx \in FxRates :
       els = [InitialEls EXCEPT !.expAmountOriginal = Some(amount),
                                !.expCurrency = currency,
                                !.expFx = Some(fx)]
  /\ tx = NoTx
  /\ outcome = "resolved"
  /\ handler = Idle
  /\ bound = TRUE
  /\ status = ""
  /\ localStorage = InitialLocalStorage

\* the input event of the amount and rate fields
AmountInput ==
  /\ bound
  /\ els' = updateAmountBasePreview(state, els)
  /\ UNCHANGED <<db, tx, outcome, state, handler, bound, status, localStorage>>

NextConvert == AmountInput

SpecConvert == InitConvert /\ [][NextConvert]_vars

----------------------------------------------------------------------------
(* The expense form with its amount fields.  The expense records here      *)
(* carry the fields the conversion reads and writes; the form's other      *)
(* fields (date, category, payment, note, tags) are left out.  Every trip  *)
(* lists every currency.                                                   *)

FormExpense(id, tripId, amountOriginal, currency, fx, base) ==
  [id |-> id, tripId |-> tripId, amountOriginal |-> amountOriginal,
   currency |-> currency, fxRateToBase |-> fx, amountBase |-> base]

\* the rates of the trip's listed expenses in the currency; the one
\* updated last is among them (the timestamps are not modelled)
findLastFxRate(s, tripId, currency) ==
  {e.fxRateToBase : e \in {x \in s.expenses : /\ x.tripId = tripId
                                               /\ x.currency = currency
                                               /\ x.fxRateToBase > 0}}

\* the forms updateFxVisibility can leave
updateFxVisibility(s, e) ==
  LET trip == activeTrip(s)
  IN  IF trip = undefined THEN {e}
      ELSE IF e.expCurrency = ValueOf(trip).baseCurrency
      THEN {[e EXCEPT !.expFx = Some(Whole(1))]}
      ELSE LET last == findLastFxRate(s, ValueOf(trip).id, e.expCurrency)
           IN  IF e.expFx = undefined /\ last # {}
               THEN {[e EXCEPT !.expFx = Some(rate)] : rate \in last}
               ELSE {e}

\* els.expFx.disabled, as updateFxVisibility has set it
expFxDisabled(s, e) ==
  activeTrip(s) # undefined /\ e.expCurrency = ValueOf(activeTrip(s)).baseCurrency

\* the form fields setExpenseDefaults leaves, s being the state it leaves
setExpenseDefaultsEls(s, e, storage, resetAmount) ==
  LET trip == activeTrip(s)
      defaults == storage[ValueOf(trip).id]
      reset == [e EXCEPT
                  !.expAmountOriginal = IF resetAmount THEN undefined ELSE @,
                  !.expCurrency = IF defaults # undefined
                                       /\ ValueOf(defaults).currency \in Currencies
                                  THEN ValueOf(defaults).currency
                                  ELSE ValueOf(trip).baseCurrency,
                  !.expFx = IF defaults # undefined /\ ValueOf(defaults).fxRate # 0
                            THEN Some(ValueOf(defaults).fxRate)
                            ELSE undefined]
  IN  IF trip = undefined THEN {e}
      ELSE {updateAmountBasePreview(s, shown) : shown \in updateFxVisibility(s, reset)}

collectExpenseFormData(s, e, id) ==
  LET trip == ValueOf(activeTrip(s))
      fx == fxRateToBase(e.expCurrency, trip, e.expFx)
      amountOriginal == NumberOf(e.expAmountOriginal)
  IN  FormExpense(id, trip.id, amountOriginal, e.expCurrency, fx,
                  amountBase(amountOriginal, fx, trip))

validateExpense(exp, trip) ==
  IF ~(exp.amountOriginal > 0) THEN "Amount must be greater than 0."
  ELSE IF exp.currency = "" THEN "Currency is required."
  ELSE IF exp.currency # trip.baseCurrency /\ ~(exp.fxRateToBase > 0)
  THEN "FX rate must be greater than 0 for non-base currency."
  ELSE null

\* amounts and rates typed into the form: 10.5 and 7.5, 8.2
TypedAmounts == {10500, 7500}

TypedFxRates == {8200}

\* expenses the form may add before the list is full
MaxFormExpenses == 1

\* the input event of the amount field
ExpenseAmountTyped(amount) ==
  /\ bound /\ handler = Idle
  /\ activeTrip(state) # undefined
  /\ els' = updateAmountBasePreview(state, [els EXCEPT !.expAmountOriginal = Some(amount)])
  /\ UNCHANGED <<db, tx, outcome, state, handler, bound, status, localStorage>>

\* the input event of the rate field, which is disabled for the base
\* currency
ExpenseFxTyped(fx) ==
  /\ bound /\ handler = Idle
  /\ activeTrip(state) # undefined
  /\ ~expFxDisabled(state, els)
  /\ els' = updateAmountBasePreview(state, [els EXCEPT !.expFx = Some(fx)])
  /\ UNCHANGED <<db, tx, outcome, state, handler, bound, status, localStorage>>

\* the change event of the currency selector
ExpenseCurrencyChange(currency) ==
  /\ bound /\ handler = Idle
  /\ activeTrip(state) # undefined
  /\ currency # els.expCurrency
  /\ \E shown \in updateFxVisibility(state, [els EXCEPT !.expCurrency = currency]) :
       els' = updateAmountBasePreview(state, shown)
  /\ UNCHANGED <<db, tx, outcome, state, handler, bound, status, localStorage>>

\* handleExpenseSubmit, from the form's fields
ExpenseFormSubmit ==
  /\ bound /\ handler = Idle
  /\ IF activeTrip(state) = undefined
     THEN /\ status' = "Create/select a trip first."
          /\ UNCHANGED <<db, tx, outcome, handler>>
     ELSE \E id \in IF state.editingExpenseId # null
                    THEN {state.editingExpenseId}
                    ELSE uid(ExpIds, UsedExpIds) :
            LET trip == ValueOf(activeTrip(state))
                exp == collectExpenseFormData(state, els, id)
                validation == validateExpense(exp, trip)
            IN  /\ state.editingExpenseId = null =>
                     Cardinality(db.expenses) < MaxFormExpenses
                /\ IF validation # null
                   THEN /\ status' = validation
                        /\ UNCHANGED <<db, tx, outcome, handler>>
                   ELSE /\ runTx("upsertExpense", exp, upsertExpense(exp))
                        /\ handler' = [name |-> "handleExpenseSubmit",
                                       wasEditing |-> state.editingExpenseId # null,
                                       exp |-> exp]
                        /\ UNCHANGED status
  /\ UNCHANGED <<state, bound, els, localStorage>>

ExpenseFormSubmitted ==
  /\ Await("handleExpenseSubmit")
  /\ IF Resolved
     THEN /\ localStorage' =
               [localStorage EXCEPT ![handler.exp.tripId] =
                  Some([currency |-> handler.exp.currency,
                        fxRate |-> handler.exp.fxRateToBase])]
          /\ state' = setExpenseDefaults(loadExpenses(state, db))
          /\ els' \in setExpenseDefaultsEls(state', els, localStorage', TRUE)
          /\ status' = IF handler.wasEditing THEN "Expense updated."
                       ELSE "Expense added."
     ELSE UNCHANGED <<state, status, els, localStorage>>
  /\ UNCHANGED <<db, tx, outcome, bound>>

\* handleExpenseListClick, edit-expense: the record's fields fill the form
ExpenseFormEdit ==
  /\ bound /\ handler = Idle /\ tx = NoTx
  /\ \E shown \in state.expenses :
       LET exp == getExpenseById(db, shown.id)
           filled == [els EXCEPT !.expAmountOriginal = Some(ValueOf(exp).amountOriginal),
                                 !.expCurrency = ValueOf(exp).currency,
                                 !.expFx = Some(ValueOf(exp).fxRateToBase)]
       IN  IF exp = undefined THEN UNCHANGED <<state, els>>
           ELSE /\ state' = [state EXCEPT !.editingExpenseId = ValueOf(exp).id]
                /\ \E visible \in updateFxVisibility(state', filled) :
                     els' = updateAmountBasePreview(state', visible)
  /\ UNCHANGED <<db, tx, outcome, handler, bound, status, localStorage>>

\* the change handler of the active-trip selector, with the form it resets
TripSelectChange ==
  /\ bound /\ handler = Idle /\ tx = NoTx
  /\ \E value \in TripIdsOf(state.trips) \cup {""} :
       state' = refreshUI(loadExpenses([state EXCEPT !.activeTripId = value], db))
  /\ els' \in setExpenseDefaultsEls(state', els, localStorage, TRUE)
  /\ UNCHANGED <<db, tx, outcome, handler, bound, status, localStorage>>

\* the end of applyRestore, with the form it resets
RestoreApplied ==
  /\ Await("applyRestore")
  /\ IF Resolved
     THEN /\ state' = refreshUI(loadAll([state EXCEPT !.pendingRestore = undefined], db))
          /\ els' \in setExpenseDefaultsEls(state', els, localStorage, TRUE)
          /\ status' = "Restore completed."
     ELSE UNCHANGED <<state, status, els>>
  /\ UNCHANGED <<db, tx, outcome, bound, localStorage>>

\* the page loaded on two trips, one in each base currency
InitExpenses ==
  /\ db = [StoresWithTrip(Trip("t1", "JPY")) EXCEPT
             !.trips = {Trip("t1", "JPY"), Trip("t2", "USD")}]
  /\ state = refreshUI(fillTripForm(loadAll(InitialState, db), null))
  /\ els \in setExpenseDefaultsEls(state, InitialEls, InitialLocalStorage, TRUE)
  /\ localStorage = InitialLocalStorage
  /\ tx = NoTx
  /\ outcome = "resolved"
  /\ handler = Idle
  /\ bound = TRUE
  /\ status = ""

\* the expense form and the expense list
NextExpenses ==
  \/ \E amount \in TypedAmounts : ExpenseAmountTyped(amount)
  \/ \E fx \in TypedFxRates : ExpenseFxTyped(fx)
  \/ \E currency \in Currencies : ExpenseCurrencyChange(currency)
  \/ ExpenseFormSubmit \/ ExpenseFormSubmitted
  \/ ExpenseFormEdit
  \/ ExpenseDelete \/ ExpenseDeleted
  \/ TripSelectChange
  \/ Transaction

SpecExpenses == InitExpenses /\ [][NextExpenses]_vars

\* backup files whose expense carries the amount fields: 7.5 at the rate
\* 8.2, with the base amount the form computes and with another
AmountPayloads ==
  {Payload(undefined, undefined,
           Some(<< Trip("t1", "JPY") >>),
           Some(<< FormExpense("e1", "t1", 7500, "USD", 8200, base) >>)) :
     base \in {61000, 99000}}

\* the expense form and the restore of a backup
NextAmounts ==
  \/ \E amount \in TypedAmounts : ExpenseAmountTyped(amount)
  \/ \E fx \in TypedFxRates : ExpenseFxTyped(fx)
  \/ \E currency \in Currencies : ExpenseCurrencyChange(currency)
  \/ ExpenseFormSubmit \/ ExpenseFormSubmitted
  \/ ExpenseFormEdit
  \/ \E payload \in AmountPayloads : RestoreFileChange(payload)
  \/ ApplyRestore \/ RestoreApplied
  \/ Transaction

SpecAmounts == InitExpenses /\ [][NextAmounts]_vars

----------------------------------------------------------------------------
(* The dashboard: the filters, the total and the breakdowns.  The search   *)
(* filter is left empty.                                                   *)

\* the dateTime values of the expenses, in ascending order
DateTimes == << "2026-01-01T09:00", "2026-01-01T18:00", "2026-01-02T09:00" >>

Days == << "2026-01-01", "2026-01-02" >>

\* dateTime.slice(0, 10)
SliceDay(dateTime) ==
  IF dateTime = "2026-01-02T09:00" THEN "2026-01-02" ELSE "2026-01-01"

Rank(order, v) == CHOOSE i \in DOMAIN order : order[i] = v

\* a < b on strings, for the dateTime values and for the days
DateTimeLess(a, b) == Rank(DateTimes, a) < Rank(DateTimes, b)

DayLess(a, b) == Rank(Days, a) < Rank(Days, b)

\* Array.prototype.sort: the entries ordered by the comparator
\* (precedes[i, j]: the comparator puts entry i before entry j), entries
\* that neither precede the other staying in their order
StableSort(entries, precedes) ==
  LET Before(i, j) ==
        \/ precedes[i, j]
        \/ ~precedes[j, i] /\ i < j
      Position(i) == 1 + Cardinality({j \in DOMAIN entries : j # i /\ Before(j, i)})
  IN  [p \in DOMAIN entries |-> entries[CHOOSE i \in DOMAIN entries : Position(i) = p]]

\* state.expenses as loadExpenses orders it: dateTime descending, then
\* createdAt descending
listedExpenses(expenses) ==
  LET First(S) == CHOOSE e \in S : \A o \in S \ {e} :
                    \/ DateTimeLess(o.dateTime, e.dateTime)
                    \/ o.dateTime = e.dateTime /\ o.createdAt < e.createdAt
      Listed[S \in SUBSET expenses] ==
        IF S = {} THEN << >> ELSE << First(S) >> \o Listed[S \ {First(S)}]
  IN  Listed[expenses]

\* Texts (notes, locations, tags, the search box) are sequences of
\* characters.
ToLowerCaseChar(c) == IF c = "A" THEN "a" ELSE IF c = "B" THEN "b" ELSE c

ToLowerCase(text) == [i \in DOMAIN text |-> ToLowerCaseChar(text[i])]

RECURSIVE TrimText(_)
\* String.prototype.trim
TrimText(text) ==
  IF text = << >> THEN << >>
  ELSE IF Head(text) = " " THEN TrimText(Tail(text))
  ELSE IF text[Len(text)] = " " THEN TrimText(SubSeq(text, 1, Len(text) - 1))
  ELSE text

\* String.prototype.includes
Includes(text, part) ==
  \E i \in 1..(Len(text) - Len(part) + 1) : SubSeq(text, i, i + Len(part) - 1) = part

RECURSIVE Join(_)
\* Array.prototype.join(' ')
Join(texts) ==
  IF texts = << >> THEN << >>
  ELSE IF Len(texts) = 1 THEN texts[1]
  ELSE texts[1] \o << " " >> \o Join(Tail(texts))

\* exp.note || '', exp.location || '', exp.tags || []
FieldOr(exp, field, default) ==
  IF field \in DOMAIN exp THEN exp[field] ELSE default

\* variant: the end date is excluded
filteredExpensesEndExclusive(s) ==
  LET search == ToLowerCase(TrimText(s.filters.search))
      Bag(exp) == ToLowerCase(Join(<< FieldOr(exp, "note", << >>),
                                      FieldOr(exp, "location", << >>) >>
                                     \o FieldOr(exp, "tags", << >>)))
      Passes(exp) ==
        /\ ~(s.filters.startDate # "" /\ DayLess(SliceDay(exp.dateTime), s.filters.startDate))
        /\ ~(s.filters.endDate # "" /\ ~DayLess(SliceDay(exp.dateTime), s.filters.endDate))
        /\ ~(s.filters.category # "All" /\ exp.category # s.filters.category)
        /\ ~(s.filters.payment # "All" /\ exp.payment # s.filters.payment)
        /\ ~(search # << >> /\ ~Includes(Bag(exp), search))
  IN  SelectSeq(listedExpenses(s.expenses), Passes)

filteredExpenses(s) ==
  LET search == ToLowerCase(TrimText(s.filters.search))
      Bag(exp) == ToLowerCase(Join(<< FieldOr(exp, "note", << >>),
                                      FieldOr(exp, "location", << >>) >>
                                     \o FieldOr(exp, "tags", << >>)))
      Passes(exp) ==
        /\ ~(s.filters.startDate # "" /\ DayLess(SliceDay(exp.dateTime), s.filters.startDate))
        /\ ~(s.filters.endDate # "" /\ DayLess(s.filters.endDate, SliceDay(exp.dateTime)))
        /\ ~(s.filters.category # "All" /\ exp.category # s.filters.category)
        /\ ~(s.filters.payment # "All" /\ exp.payment # s.filters.payment)
        /\ ~(search # << >> /\ ~Includes(Bag(exp), search))
  IN  SelectSeq(listedExpenses(s.expenses), Passes)

\* the rows of the expense list
renderExpenseList(s, e) ==
  IF activeTrip(s) = undefined THEN [e EXCEPT !.expenseList = << >>]
  ELSE [e EXCEPT !.expenseList = filteredExpenses(s)]

\* a Map, its entries in insertion order
MapGet(map, k) ==
  LET at == {i \in DOMAIN map : map[i][1] = k}
  IN  IF at = {} THEN undefined ELSE Some(map[CHOOSE i \in at : TRUE][2])

MapSet(map, k, v) ==
  IF MapGet(map, k) = undefined THEN Append(map, << k, v >>)
  ELSE [i \in DOMAIN map |-> IF map[i][1] = k THEN << k, v >> ELSE map[i]]

\* Number(item.amountBase || 0)
NumberOrZero(amount) == Double(amount)

\* map.get(k) || 0
GetOrZero(map, k) ==
  IF MapGet(map, k) = undefined THEN Double(0) ELSE ValueOf(MapGet(map, k))

RECURSIVE Accumulate(_, _, _)
\* the loop of aggregateBy and aggregateByDay over the items' keys
Accumulate(items, keys, map) ==
  IF items = << >> THEN map
  ELSE Accumulate(Tail(items), Tail(keys),
                  MapSet(map, Head(keys),
                         Plus(GetOrZero(map, Head(keys)), NumberOrZero(Head(items).amountBase))))

\* variant: items without a key are left out
aggregateBySkipEmpty(items, key) ==
  LET keyed == SelectSeq(items, LAMBDA item : item[key] # "")
      keys == [i \in DOMAIN keyed |-> keyed[i][key]]
      map == Accumulate(keyed, keys, << >>)
      byTotal == [i \in DOMAIN map, j \in DOMAIN map |-> Less(map[j][2], map[i][2])]
  IN  StableSort(map, byTotal)

aggregateBy(items, key) ==
  LET keys == [i \in DOMAIN items |->
                 IF items[i][key] = "" THEN "Unknown" ELSE items[i][key]]
      map == Accumulate(items, keys, << >>)
      byTotal == [i \in DOMAIN map, j \in DOMAIN map |-> Less(map[j][2], map[i][2])]
  IN  StableSort(map, byTotal)

\* variant: the days stay in the order of first encounter
aggregateByDayUnsorted(items) ==
  Accumulate(items, [i \in DOMAIN items |-> SliceDay(items[i].dateTime)], << >>)

aggregateByDay(items) ==
  LET keys == [i \in DOMAIN items |-> SliceDay(items[i].dateTime)]
      map == Accumulate(items, keys, << >>)
      byDay == [i \in DOMAIN map, j \in DOMAIN map |-> DayLess(map[i][1], map[j][1])]
  IN  StableSort(map, byDay)

RECURSIVE Reduce(_, _)
\* items.reduce((sum, x) => sum + Number(x.amountBase || 0), 0) over the
\* first n items
Reduce(items, n) ==
  IF n = 0 THEN Double(0)
  ELSE Plus(Reduce(items, n - 1), NumberOrZero(items[n].amountBase))

\* The days of the trips, in ascending order, and the time zones of the
\* browser.  An instant is a number of minutes since 2026-10-31T00:00Z; a
\* clock is the instant of the call and the time zone.
Calendar == << "2026-10-31", "2026-11-01", "2026-11-02" >>

TimeZones == {"UTC", "America/New_York"}

MinutesPerDay == 24 * 60

\* new Date(`${day}T${time}`): the instant of the local time, minute
\* minutes after midnight of the day; New York is 4 hours behind UTC until
\* 2026-11-01 02:00 local time and 5 hours behind from then on
DateOf(day, minute, timeZone) ==
  LET local == (Rank(Calendar, day) - 1) * MinutesPerDay + minute
  IN  IF timeZone = "UTC" THEN local
      ELSE IF local < MinutesPerDay + 120 THEN local + 240
      ELSE local + 300

Max(a, b) == IF a > b THEN a ELSE b

\* the days elapsed of the trip at the clock's instant
daysElapsed(trip, clock) ==
  LET tripStart == DateOf(trip.startDate, 0, clock.timeZone)
      tripEnd == DateOf(trip.endDate, 23 * 60 + 59, clock.timeZone)
      endForElapsed == IF clock.now < tripEnd THEN clock.now ELSE tripEnd
      elapsed == Max(endForElapsed - tripStart, 0)
  IN  Max(elapsed \div MinutesPerDay + 1, 1)

\* the budget panel of the dashboard
budgetPanel(trip, total, clock) ==
  IF FieldOr(trip, "budgetEnabled", FALSE)
  THEN LET budget == Double(trip.budgetAmountBase)
           remaining == Minus(budget, total)
       IN  [label |-> "Budget Remaining", remaining |-> remaining,
            remainingClass |-> IF ~remaining.negative
                               THEN "positive" ELSE "negative",
            budget |-> trip.budgetAmountBase,
            daysElapsed |-> daysElapsed(trip, clock),
            avgPerDay |-> DividedBy(total, daysElapsed(trip, clock))]
  ELSE [label |-> "Budget", value |-> "Disabled"]

renderDashboard(s, e, clock) ==
  LET items == filteredExpenses(s)
      total == Reduce(items, Len(items))
  IN  IF activeTrip(s) = undefined
      THEN [e EXCEPT !.totalSpent = undefined, !.categoryTable = << >>,
                     !.paymentTable = << >>, !.dailyChart = << >>,
                     !.budgetPanel = [label |-> "Budget", value |-> "-"]]
      ELSE [e EXCEPT !.totalSpent = Some(total),
                     !.categoryTable = aggregateBy(items, "category"),
                     !.paymentTable = aggregateBy(items, "payment"),
                     !.dailyChart = aggregateByDay(items),
                     !.budgetPanel = budgetPanel(ValueOf(activeTrip(s)), total, clock)]

\* the change handlers of the filter inputs
FilterStartDateChange(value, clock) ==
  /\ bound
  /\ state' = [state EXCEPT !.filters.startDate = value]
  /\ els' = renderDashboard(state', renderExpenseList(state', els), clock)
  /\ UNCHANGED <<db, tx, outcome, handler, bound, status, localStorage>>

FilterEndDateChange(value, clock) ==
  /\ bound
  /\ state' = [state EXCEPT !.filters.endDate = value]
  /\ els' = renderDashboard(state', renderExpenseList(state', els), clock)
  /\ UNCHANGED <<db, tx, outcome, handler, bound, status, localStorage>>

FilterCategoryChange(value, clock) ==
  /\ bound
  /\ state' = [state EXCEPT !.filters.category = value]
  /\ els' = renderDashboard(state', renderExpenseList(state', els), clock)
  /\ UNCHANGED <<db, tx, outcome, handler, bound, status, localStorage>>

FilterPaymentChange(value, clock) ==
  /\ bound
  /\ state' = [state EXCEPT !.filters.payment = value]
  /\ els' = renderDashboard(state', renderExpenseList(state', els), clock)
  /\ UNCHANGED <<db, tx, outcome, handler, bound, status, localStorage>>

\* the input handler of the search box
FilterSearchInput(value, clock) ==
  /\ bound
  /\ state' = [state EXCEPT !.filters.search = value]
  /\ els' = renderDashboard(state', renderExpenseList(state', els), clock)
  /\ UNCHANGED <<db, tx, outcome, handler, bound, status, localStorage>>

\* the expenses of a trip kept in dollars: amounts of 0.10, 0.20 and 0.30,
\* some without a category or a payment method (as a backup may hold them)
MaxListed == 3

ListedIds == << "e1", "e2", "e3", "e4" >>

DashboardAmounts == {100, 200, 300}

\* the clock of the pages that show no budget
PageClocks == {[now |-> 0, timeZone |-> "UTC"]}

DashboardKinds ==
  {[category |-> "Flights", payment |-> "Cash", dateTime |-> "2026-01-01T09:00"],
   [category |-> "Lodging", payment |-> "", dateTime |-> "2026-01-01T18:00"],
   [category |-> "", payment |-> "Cash", dateTime |-> "2026-01-02T09:00"]}

DashboardExpense(n, amount, kind) ==
  [id |-> ListedIds[n], tripId |-> "t1", createdAt |-> n, amountBase |-> amount,
   category |-> kind.category, payment |-> kind.payment, dateTime |-> kind.dateTime]

DashboardLists ==
  UNION {{{DashboardExpense(n, amounts[n], kinds[n]) : n \in 1..count} :
            amounts \in [1..count -> DashboardAmounts],
            kinds \in [1..count -> DashboardKinds]} : count \in 0..MaxListed}

\* the page loaded on the trip and its expenses
InitDashboard ==
  /\ \E expenses \in DashboardLists :
       db = [StoresWithTrip(Trip("t1", "USD")) EXCEPT !.expenses = expenses]
  /\ state = refreshUI(fillTripForm(loadAll(InitialState, db), null))
  /\ \E clock \in PageClocks :
       els = renderDashboard(state, renderExpenseList(state, InitialEls), clock)
  /\ localStorage = InitialLocalStorage
  /\ tx = NoTx
  /\ outcome = "resolved"
  /\ handler = Idle
  /\ bound = TRUE
  /\ status = ""

NextDashboard ==
  \/ \E value \in {"", "2026-01-02"} , clock \in PageClocks : FilterStartDateChange(value, clock)
  \/ \E value \in {"", "2026-01-01"} , clock \in PageClocks : FilterEndDateChange(value, clock)
  \/ \E value \in {"All", "Flights"} , clock \in PageClocks : FilterCategoryChange(value, clock)
  \/ \E value \in {"All", "Cash"} , clock \in PageClocks : FilterPaymentChange(value, clock)

SpecDashboard == InitDashboard /\ [][NextDashboard]_vars

\* expenses with a note, a location and tags, dated on the two days
MaxFiltered == 2

FilteredKinds ==
  {[category |-> "Flights", payment |-> "Cash", dateTime |-> "2026-01-01T09:00",
    note |-> << "a" >>, location |-> << "b" >>, tags |-> << >>],
   [category |-> "Flights", payment |-> "", dateTime |-> "2026-01-01T18:00",
    note |-> << "A", "b" >>, location |-> << >>, tags |-> << << "b" >>, << "a" >> >>],
   [category |-> "Lodging", payment |-> "Cash", dateTime |-> "2026-01-02T09:00",
    note |-> << >>, location |-> << "B" >>, tags |-> << << "a" >> >>],
   [category |-> "", payment |-> "Cash", dateTime |-> "2026-01-02T09:00",
    note |-> << "b" >>, location |-> << >>, tags |-> << >>]}

FilteredExpense(n, kind) ==
  [id |-> ListedIds[n], tripId |-> "t1", createdAt |-> n, amountBase |-> Whole(1),
   category |-> kind.category, payment |-> kind.payment, dateTime |-> kind.dateTime,
   note |-> kind.note, location |-> kind.location, tags |-> kind.tags]

FilteredLists ==
  UNION {{{FilteredExpense(n, kinds[n]) : n \in 1..count} :
            kinds \in [1..count -> FilteredKinds]} : count \in 0..MaxFiltered}

\* texts typed into the search box
SearchTexts ==
  {<< >>, << " " >>, << "a" >>, << "B" >>, << " ", "a" >>, << "a", " ", "b" >>, << "b", " " >>}

\* the page loaded on the trip and its expenses
InitFilters ==
  /\ \E expenses \in FilteredLists :
       db = [StoresWithTrip(Trip("t1", "USD")) EXCEPT !.expenses = expenses]
  /\ state = refreshUI(fillTripForm(loadAll(InitialState, db), null))
  /\ \E clock \in PageClocks :
       els = renderDashboard(state, renderExpenseList(state, InitialEls), clock)
  /\ localStorage = InitialLocalStorage
  /\ tx = NoTx
  /\ outcome = "resolved"
  /\ handler = Idle
  /\ bound = TRUE
  /\ status = ""

NextFilters ==
  \/ \E value \in {"", "2026-01-02"} , clock \in PageClocks : FilterStartDateChange(value, clock)
  \/ \E value \in {"", "2026-01-01"} , clock \in PageClocks : FilterEndDateChange(value, clock)
  \/ \E value \in {"All", "Flights"} , clock \in PageClocks : FilterCategoryChange(value, clock)
  \/ \E value \in {"All", "Cash"} , clock \in PageClocks : FilterPaymentChange(value, clock)
  \/ \E value \in SearchTexts , clock \in PageClocks : FilterSearchInput(value, clock)

SpecFilters == InitFilters /\ [][NextFilters]_vars

\* trips with a budget, over the days of the calendar
MaxBudgetListed == 2

BudgetTrip(currency, budget, startDate, endDate) ==
  [id |-> "t1", baseCurrency |-> currency, budgetEnabled |-> budget # 0,
   budgetAmountBase |-> budget, startDate |-> startDate, endDate |-> endDate]

BudgetTrips ==
  {BudgetTrip("JPY", Whole(100000), "2026-10-31", "2026-11-01"),
   BudgetTrip("USD", 0, "2026-10-31", "2026-10-31")}
    \cup {BudgetTrip("USD", Hundredths(30), Calendar[days[1]], Calendar[days[2]]) :
            days \in {d \in (DOMAIN Calendar) \X (DOMAIN Calendar) : d[1] <= d[2]}}

\* the expenses of a trip, their amountBase in the decimals of its currency
BudgetKinds(currency) ==
  IF currency = "JPY"
  THEN {[amountBase |-> Whole(7500), category |-> "Flights", payment |-> "Cash"],
        [amountBase |-> Whole(95000), category |-> "Lodging", payment |-> ""]}
  ELSE {[amountBase |-> Hundredths(10), category |-> "Flights", payment |-> "Cash"],
        [amountBase |-> Hundredths(20), category |-> "Lodging", payment |-> ""]}

BudgetExpense(n, kind) ==
  [id |-> ListedIds[n], tripId |-> "t1", createdAt |-> n,
   amountBase |-> kind.amountBase, category |-> kind.category,
   payment |-> kind.payment, dateTime |-> "2026-01-01T09:00"]

BudgetLists(currency) ==
  UNION {{{BudgetExpense(n, kinds[n]) : n \in 1..count} :
            kinds \in [1..count -> BudgetKinds(currency)]} :
           count \in 0..MaxBudgetListed}

\* before, within and after the days of the calendar
BudgetClocks ==
  [now : {0 - 100, 1500, 3000, 7000}, timeZone : TimeZones]

\* the page loaded on the trip and its expenses
InitBudget ==
  /\ \E trip \in BudgetTrips :
     \E expenses \in BudgetLists(trip.baseCurrency) :
       db = [StoresWithTrip(trip) EXCEPT !.expenses = expenses]
  /\ state = refreshUI(fillTripForm(loadAll(InitialState, db), null))
  /\ \E clock \in BudgetClocks :
       els = renderDashboard(state, renderExpenseList(state, InitialEls), clock)
  /\ localStorage = InitialLocalStorage
  /\ tx = NoTx
  /\ outcome = "resolved"
  /\ handler = Idle
  /\ bound = TRUE
  /\ status = ""

NextBudget ==
  \/ \E value \in {"All", "Flights"}, clock \in BudgetClocks :
       FilterCategoryChange(value, clock)
  \/ \E value \in {"All", "Cash"}, clock \in BudgetClocks :
       FilterPaymentChange(value, clock)

SpecBudget == InitBudget /\ [][NextBudget]_vars

----------------------------------------------------------------------------
(* The forms with every field, each handler between its awaits.  handler   *)
(* holds one task per handler: where the handler waits (at) and the values *)
(* it has in hand.  A store call is one transaction of a single request;   *)
(* it runs at the step that resumes the handler, and none fails here.      *)
(* loadAll's three reads are taken together.  Times are counted in ticks;  *)
(* Date.now() is one tick after the latest time on record, until the last  *)
(* tick, where the clock stays.                                            *)

\* a text of n characters
Text(n) == [i \in 1..n |-> "a"]

\* toUpperCase, on the currency codes typed
UpperCase(code) == IF code = "usd" THEN "USD" ELSE code

RECURSIVE Unique(_)
\* [...new Set(list)]: the first occurrence of each element, in order
Unique(list) ==
  IF list = << >> THEN << >>
  ELSE LET rest == Unique(SubSeq(list, 1, Len(list) - 1))
           last == list[Len(list)]
       IN  IF \E k \in DOMAIN rest : rest[k] = last THEN rest
           ELSE Append(rest, last)

parseCurrencies(input, baseCurrency) ==
  LET NotEmpty(code) == code # ""
      codes == SelectSeq([k \in DOMAIN input |-> UpperCase(input[k])], NotEmpty)
  IN  SelectSeq(Unique(Append(codes, UpperCase(baseCurrency))), NotEmpty)

collectTripFormData(form, id, now) ==
  [id |-> id,
   name |-> TrimText(form.name),
   startDate |-> form.startDate,
   endDate |-> form.endDate,
   baseCurrency |-> UpperCase(form.baseCurrency),
   currencies |-> parseCurrencies(form.currencies, UpperCase(form.baseCurrency)),
   budgetEnabled |-> form.budgetEnabled,
   budgetAmountBase |-> IF form.budgetEnabled THEN NumberOf(form.budgetAmount) ELSE 0,
   dailyBudgetAmountBase |-> form.dailyBudgetAmount,
   createdAt |-> now]

\* variant: the dates are not looked at
validateTripFormNoDates(payload) ==
  IF payload.name = << >> \/ Len(payload.name) > 50
  THEN "Trip name is required (1-50 chars)."
  ELSE IF payload.baseCurrency = "" THEN "Base currency is required."
  ELSE IF \A k \in DOMAIN payload.currencies : payload.currencies[k] # payload.baseCurrency
  THEN "Currencies must include base currency."
  ELSE IF payload.budgetEnabled /\ ~(payload.budgetAmountBase > 0)
  THEN "Budget amount is required when budget is enabled."
  ELSE null

validateTripForm(payload) ==
  IF payload.name = << >> \/ Len(payload.name) > 50
  THEN "Trip name is required (1-50 chars)."
  ELSE IF payload.startDate = "" \/ payload.endDate = ""
  THEN "Start and end date are required."
  ELSE IF Rank(Calendar, payload.startDate) > Rank(Calendar, payload.endDate)
  THEN "Start date must be before or equal to end date."
  ELSE IF payload.baseCurrency = "" THEN "Base currency is required."
  ELSE IF \A k \in DOMAIN payload.currencies : payload.currencies[k] # payload.baseCurrency
  THEN "Currencies must include base currency."
  ELSE IF payload.budgetEnabled /\ ~(payload.budgetAmountBase > 0)
  THEN "Budget amount is required when budget is enabled."
  ELSE null

\* nowLocalDateTimeInput(), the clock's minute as the date field shows it
nowLocalDateTimeInput == "2026-01-02T09:00"

\* the tags typed, already split at the commas: trimmed, the empty ones
\* dropped, the first ten kept, each cut to 24 characters
parseTags(typed) ==
  LET trimmed == [k \in DOMAIN typed |-> TrimText(typed[k])]
      NotEmpty(tag) == tag # << >>
      kept == SelectSeq(trimmed, NotEmpty)
      first == SubSeq(kept, 1, IF Len(kept) < 10 THEN Len(kept) ELSE 10)
  IN  [k \in DOMAIN first |->
         SubSeq(first[k], 1, IF Len(first[k]) < 24 THEN Len(first[k]) ELSE 24)]

\* collectExpenseFormData with the fields the amounts leave out
collectExpenseFormDataAll(s, e, id, now) ==
  collectExpenseFormData(s, e, id)
    @@ [dateTime |-> IF e.expDateTime = "" THEN nowLocalDateTimeInput
                     ELSE e.expDateTime,
        category |-> e.expCategory,
        payment |-> e.expPayment,
        note |-> TrimText(e.expNote),
        location |-> TrimText(e.expLocation),
        tags |-> parseTags(e.expTags),
        createdAt |-> now,
        updatedAt |-> now]

\* variant: the note's length is not looked at
validateExpenseAllNoNote(exp, trip) ==
  IF ~(exp.amountOriginal > 0) THEN "Amount must be greater than 0."
  ELSE IF exp.currency = "" THEN "Currency is required."
  ELSE IF exp.dateTime = "" THEN "Date/time is required."
  ELSE IF exp.category = "" THEN "Category is required."
  ELSE IF exp.payment = "" THEN "Payment method is required."
  ELSE IF exp.currency # trip.baseCurrency /\ ~(exp.fxRateToBase > 0)
  THEN "FX rate must be greater than 0 for non-base currency."
  ELSE IF Len(exp.location) > 80 THEN "Location must be 80 chars or less."
  ELSE IF Len(exp.tags) > 10 THEN "Maximum 10 tags."
  ELSE null

\* validateExpense with the fields the amounts leave out
validateExpenseAll(exp, trip) ==
  IF ~(exp.amountOriginal > 0) THEN "Amount must be greater than 0."
  ELSE IF exp.currency = "" THEN "Currency is required."
  ELSE IF exp.dateTime = "" THEN "Date/time is required."
  ELSE IF exp.category = "" THEN "Category is required."
  ELSE IF exp.payment = "" THEN "Payment method is required."
  ELSE IF exp.currency # trip.baseCurrency /\ ~(exp.fxRateToBase > 0)
  THEN "FX rate must be greater than 0 for non-base currency."
  ELSE IF Len(exp.note) > 120 THEN "Note must be 120 chars or less."
  ELSE IF Len(exp.location) > 80 THEN "Location must be 80 chars or less."
  ELSE IF Len(exp.tags) > 10 THEN "Maximum 10 tags."
  ELSE null

\* the rest of the expense form as setExpenseDefaults leaves it
setExpenseDefaultsAll(s, e, storage) ==
  IF activeTrip(s) = undefined THEN {e}
  ELSE
  {[shown EXCEPT !.expDateTime = nowLocalDateTimeInput,
                 !.expCategory = IF s.settings.categories = << >> THEN ""
                                 ELSE s.settings.categories[1],
                 !.expPayment = IF s.settings.paymentMethods = << >> THEN ""
                                ELSE s.settings.paymentMethods[1],
                 !.expNote = << >>,
                 !.expLocation = << >>,
                 !.expTags = << >>] :
     shown \in setExpenseDefaultsEls(s, e, storage, TRUE)}

\* no call of the handler is in flight
NoTask == [at |-> "idle"]

NoTasks ==
  [name |-> "forms", tripSubmit |-> NoTask, expenseSubmit |-> NoTask,
   editExpense |-> NoTask, tripSelect |-> NoTask, setActive |-> NoTask,
   tripDelete |-> NoTask, deleteExpense |-> NoTask]

\* the value of the active-trip selector: the option of the active trip is
\* the selected one, and without it the first option, of no trip
renderTripSelector(s, e) ==
  [activeTripSelect |-> IF s.activeTripId \in TripIdsOf(s.trips)
                        THEN s.activeTripId ELSE ""] @@ e

\* the rows of the trip list, which are the trips the selector offers too
renderTripList(s, e) == [tripList |-> TripIdsOf(s.trips)] @@ e

\* the page's elements as refreshUI leaves them
refreshUIEls(s, e, storage) ==
  setExpenseDefaultsAll(s, renderTripList(s, renderTripSelector(s, e)), storage)

\* the latest tick
MaxTime == 3

\* the times on record: in the store and in the records the handlers hold
TimesOnRecord ==
  {0} \cup {FieldOr(t, "createdAt", 0) : t \in db.trips}
      \cup {FieldOr(e, "updatedAt", 0) : e \in db.expenses}
      \cup (IF handler.tripSubmit = NoTask THEN {} ELSE {handler.tripSubmit.now})
      \cup (IF handler.expenseSubmit = NoTask THEN {} ELSE {handler.expenseSubmit.exp.updatedAt})

\* Date.now()
DateNow ==
  {now \in 1..MaxTime :
     \/ now - 1 \in TimesOnRecord /\ \A past \in TimesOnRecord : now > past
     \/ now = MaxTime /\ MaxTime \in TimesOnRecord}

\* variant: the record keeps the submission's own createdAt
createdAtOrOwn(old, createdAt) == createdAt

\* old?.createdAt || createdAt
createdAtOr(old, createdAt) ==
  IF old # undefined /\ FieldOr(ValueOf(old), "createdAt", 0) # 0
  THEN ValueOf(old).createdAt ELSE createdAt

\* the ids uid can give a trip and an expense of these forms
FormTripIds == {"t1"}

FormExpIds == {"e1"}

\* the ids of the records the handlers are about to write
TaskTripIds ==
  IF handler.tripSubmit = NoTask THEN {} ELSE {handler.tripSubmit.newTrip.id}

TaskExpIds ==
  IF handler.expenseSubmit = NoTask THEN {} ELSE {handler.expenseSubmit.exp.id}

\* handleTripSubmit up to its first await
TripSubmitBegin(form) ==
  /\ bound /\ handler.tripSubmit = NoTask
  /\ \E now \in DateNow :
     \E id \in IF state.editingTripId # null THEN {state.editingTripId}
               ELSE uid(FormTripIds, UsedTripIds \cup TaskTripIds) :
       LET newTrip == collectTripFormData(form, id, now)
           validation == validateTripForm(newTrip)
       IN  IF validation # null
           THEN /\ status' = validation
                /\ UNCHANGED handler
           ELSE /\ handler' =
                     [handler EXCEPT !.tripSubmit =
                        [at |-> IF state.editingTripId # null
                                THEN "getTripById" ELSE "upsertTrip",
                         wasEditing |-> state.editingTripId # null,
                         newTrip |-> newTrip,
                         old |-> undefined,
                         now |-> now]]
                /\ UNCHANGED status
  /\ UNCHANGED <<db, tx, outcome, state, bound, els, localStorage>>

\* getTripById has resolved
TripSubmitGotOld ==
  /\ handler.tripSubmit.at = "getTripById"
  /\ LET task == handler.tripSubmit
         old == getTripById(db, task.newTrip.id)
     IN  handler' =
           [handler EXCEPT !.tripSubmit =
              IF old # undefined /\ ValueOf(old).baseCurrency # task.newTrip.baseCurrency
              THEN [task EXCEPT !.at = "getExpensesByTrip", !.old = old]
              ELSE [task EXCEPT !.at = "upsertTrip", !.old = old,
                                !.newTrip.createdAt = createdAtOr(old, @)]]
  /\ UNCHANGED <<db, tx, outcome, state, bound, status, els, localStorage>>

\* getExpensesByTrip has resolved
TripSubmitGotExpenses ==
  /\ handler.tripSubmit.at = "getExpensesByTrip"
  /\ LET task == handler.tripSubmit
     IN  IF baseCurrencyChangeBlocked(task.old, task.newTrip, db)
         THEN /\ status' = "Base currency cannot be changed once expenses exist for this trip in v1."
              /\ handler' = [handler EXCEPT !.tripSubmit = NoTask]
         ELSE /\ handler' =
                   [handler EXCEPT !.tripSubmit =
                      [task EXCEPT !.at = "upsertTrip",
                                   !.newTrip.createdAt = createdAtOr(task.old, @)]]
              /\ UNCHANGED status
  /\ UNCHANGED <<db, tx, outcome, state, bound, els, localStorage>>

\* upsertTrip has resolved
TripSubmitPut ==
  /\ handler.tripSubmit.at = "upsertTrip"
  /\ db' = ApplyAll(db, upsertTrip(handler.tripSubmit.newTrip))
  /\ state' = IF state.activeTripId = ""
              THEN [state EXCEPT !.activeTripId = handler.tripSubmit.newTrip.id]
              ELSE state
  /\ handler' = [handler EXCEPT !.tripSubmit.at = "loadAll"]
  /\ UNCHANGED <<tx, outcome, bound, status, els, localStorage>>

\* loadAll has resolved
TripSubmitLoaded ==
  /\ handler.tripSubmit.at = "loadAll"
  /\ state' = refreshUI(fillTripForm(loadAll(state, db), null))
  /\ els' \in refreshUIEls(state', els, localStorage)
  /\ status' = IF handler.tripSubmit.wasEditing THEN "Trip updated."
               ELSE "Trip created."
  /\ handler' = [handler EXCEPT !.tripSubmit = NoTask]
  /\ UNCHANGED <<db, tx, outcome, bound, localStorage>>

\* handleTripListClick, edit: the trip fills the form
EditTripClick ==
  /\ bound
  /\ \E tripId \in TripIdsOf(state.trips) : state' = fillTripForm(state, tripId)
  /\ UNCHANGED <<db, tx, outcome, handler, bound, status, els, localStorage>>

\* the expense form is filled in
ExpenseFormTyped(typed) ==
  /\ bound
  /\ activeTrip(state) # undefined
  /\ \E shown \in updateFxVisibility(state,
                    [els EXCEPT !.expAmountOriginal = typed.amount,
                                !.expCurrency = typed.currency,
                                !.expFx = typed.fx,
                                !.expDateTime = typed.dateTime,
                                !.expCategory = typed.category,
                                !.expPayment = typed.payment,
                                !.expNote = typed.note,
                                !.expLocation = typed.location,
                                !.expTags = typed.tags]) :
       els' = updateAmountBasePreview(state, shown)
  /\ UNCHANGED <<db, tx, outcome, state, handler, bound, status, localStorage>>

\* handleExpenseSubmit up to its first await
ExpenseSubmitBegin ==
  /\ bound /\ handler.expenseSubmit = NoTask
  /\ IF activeTrip(state) = undefined
     THEN /\ status' = "Create/select a trip first."
          /\ UNCHANGED handler
     ELSE \E now \in DateNow :
          \E id \in IF state.editingExpenseId # null
                    THEN {state.editingExpenseId}
                    ELSE uid(FormExpIds, UsedExpIds \cup TaskExpIds) :
            LET trip == ValueOf(activeTrip(state))
                exp == collectExpenseFormDataAll(state, els, id, now)
                validation == validateExpenseAll(exp, trip)
            IN  IF validation # null
                THEN /\ status' = validation
                     /\ UNCHANGED handler
                ELSE /\ handler' =
                          [handler EXCEPT !.expenseSubmit =
                             [at |-> IF state.editingExpenseId # null
                                     THEN "getExpenseById" ELSE "upsertExpense",
                              wasEditing |-> state.editingExpenseId # null,
                              trip |-> Some(trip),
                              exp |-> exp]]
                     /\ UNCHANGED status
  /\ UNCHANGED <<db, tx, outcome, state, bound, els, localStorage>>

\* getExpenseById has resolved
ExpenseSubmitGotExisting ==
  /\ handler.expenseSubmit.at = "getExpenseById"
  /\ LET task == handler.expenseSubmit
         existing == getExpenseById(db, task.exp.id)
     IN  handler' =
           [handler EXCEPT !.expenseSubmit =
              [task EXCEPT !.at = "upsertExpense",
                           !.exp.createdAt = createdAtOr(existing, @)]]
  /\ UNCHANGED <<db, tx, outcome, state, bound, status, els, localStorage>>

\* state.expenses once getExpensesByTrip has resolved for the trip that
\* loadExpenses has read
loadedExpenses(s, d, trip) ==
  [s EXCEPT !.expenses = IF trip = undefined THEN {}
                         ELSE getExpensesByTrip(d, ValueOf(trip).id)]

\* upsertExpense has resolved; loadExpenses reads the active trip and,
\* finding none, returns without a read of the store, so that the handler
\* runs to its end
ExpenseSubmitPut ==
  /\ handler.expenseSubmit.at = "upsertExpense"
  /\ LET task == handler.expenseSubmit
         trip == activeTrip(state)
     IN  /\ db' = ApplyAll(db, upsertExpense(task.exp))
         /\ localStorage' =
              [localStorage EXCEPT ![ValueOf(task.trip).id] =
                 Some([currency |-> task.exp.currency,
                       fxRate |-> task.exp.fxRateToBase])]
         /\ IF trip = undefined
            THEN /\ state' = setExpenseDefaults(loadedExpenses(state, db', trip))
                 /\ els' \in setExpenseDefaultsAll(state', els, localStorage')
                 /\ status' = IF task.wasEditing THEN "Expense updated."
                              ELSE "Expense added."
                 /\ handler' = [handler EXCEPT !.expenseSubmit = NoTask]
            ELSE /\ handler' = [handler EXCEPT !.expenseSubmit =
                                  [task EXCEPT !.at = "loadExpenses",
                                               !.trip = trip]]
                 /\ UNCHANGED <<state, status, els>>
  /\ UNCHANGED <<tx, outcome, bound>>

\* loadExpenses has resolved
ExpenseSubmitLoaded ==
  /\ handler.expenseSubmit.at = "loadExpenses"
  /\ state' = setExpenseDefaults(loadedExpenses(state, db, handler.expenseSubmit.trip))
  /\ els' \in setExpenseDefaultsAll(state', els, localStorage)
  /\ status' = IF handler.expenseSubmit.wasEditing THEN "Expense updated."
               ELSE "Expense added."
  /\ handler' = [handler EXCEPT !.expenseSubmit = NoTask]
  /\ UNCHANGED <<db, tx, outcome, bound, localStorage>>

\* handleExpenseListClick, edit-expense, up to its await
EditExpenseBegin ==
  /\ bound /\ handler.editExpense = NoTask
  /\ \E shown \in state.expenses :
       handler' = [handler EXCEPT !.editExpense =
                     [at |-> "getExpenseById", id |-> shown.id]]
  /\ UNCHANGED <<db, tx, outcome, state, bound, status, els, localStorage>>

\* getExpenseById has resolved: the record fills the form
EditExpenseGot ==
  /\ handler.editExpense.at = "getExpenseById"
  /\ LET exp == getExpenseById(db, handler.editExpense.id)
         filled == [els EXCEPT !.expAmountOriginal = Some(ValueOf(exp).amountOriginal),
                               !.expCurrency = ValueOf(exp).currency,
                               !.expFx = Some(ValueOf(exp).fxRateToBase),
                               !.expDateTime = ValueOf(exp).dateTime,
                               !.expCategory = ValueOf(exp).category,
                               !.expPayment = ValueOf(exp).payment,
                               !.expNote = ValueOf(exp).note,
                               !.expLocation = ValueOf(exp).location,
                               !.expTags = ValueOf(exp).tags]
     IN  IF exp = undefined THEN UNCHANGED <<state, els>>
         ELSE /\ state' = [state EXCEPT !.editingExpenseId = ValueOf(exp).id]
              /\ \E visible \in updateFxVisibility(state', filled) :
                   els' = updateAmountBasePreview(state', visible)
  /\ handler' = [handler EXCEPT !.editExpense = NoTask]
  /\ UNCHANGED <<db, tx, outcome, bound, status, localStorage>>

\* an active trip is chosen, in the selector or in the trip list: up to the
\* await in loadExpenses, or to the handler's end when loadExpenses finds no
\* active trip and returns without a read of the store
ActiveTripChosen(task, value) ==
  LET chosen == [state EXCEPT !.activeTripId = value]
  IN  /\ IF activeTrip(chosen) = undefined
         THEN /\ state' = refreshUI([loadedExpenses(chosen, db, undefined)
                                       EXCEPT !.filters.startDate = "",
                                              !.filters.endDate = ""])
              /\ els' \in refreshUIEls(state', els, localStorage)
              /\ UNCHANGED handler
         ELSE /\ state' = chosen
              /\ handler' = [handler EXCEPT ![task] =
                               [at |-> "loadExpenses", trip |-> activeTrip(chosen)]]
              /\ els' = IF task = "tripSelect"
                        THEN [els EXCEPT !.activeTripSelect = value] ELSE els
      /\ UNCHANGED <<db, tx, outcome, bound, status, localStorage>>

\* loadExpenses has resolved for the trip chosen
ActiveTripLoaded(task) ==
  /\ handler[task].at = "loadExpenses"
  /\ state' = refreshUI([loadedExpenses(state, db, handler[task].trip)
                           EXCEPT !.filters.startDate = "", !.filters.endDate = ""])
  /\ els' \in refreshUIEls(state', els, localStorage)
  /\ handler' = [handler EXCEPT ![task] = NoTask]
  /\ UNCHANGED <<db, tx, outcome, bound, status, localStorage>>

\* the change handler of the active-trip selector, up to its await
ActiveTripChangeBegin ==
  /\ bound /\ handler.tripSelect = NoTask
  /\ \E value \in els.tripList \cup {""} :
       /\ value # els.activeTripSelect
       /\ ActiveTripChosen("tripSelect", value)

\* loadExpenses has resolved
ActiveTripChangeLoaded ==
  /\ handler.tripSelect # NoTask
  /\ ActiveTripLoaded("tripSelect")

\* handleTripListClick, set-active, up to its await
SetActiveBegin ==
  /\ bound /\ handler.setActive = NoTask
  /\ \E tripId \in els.tripList : ActiveTripChosen("setActive", tripId)

\* loadExpenses has resolved
SetActiveLoaded ==
  /\ handler.setActive # NoTask
  /\ ActiveTripLoaded("setActive")

\* handleTripListClick, delete, up to its first await: the trip is looked up
\* in state.trips and the confirmation is given
TripDeleteBegin ==
  /\ bound /\ handler.tripDelete = NoTask
  /\ \E tripId \in els.tripList \cap TripIdsOf(state.trips) :
       handler' = [handler EXCEPT !.tripDelete =
                     [at |-> "deleteTripCascade", id |-> tripId, trip |-> undefined]]
  /\ UNCHANGED <<db, tx, outcome, state, bound, status, els, localStorage>>

\* deleteTripCascade has resolved; loadAll begins with its reads of the
\* settings, which nothing here changes, and of the trips
TripDeleteCascaded ==
  /\ handler.tripDelete.at = "deleteTripCascade"
  /\ db' = ApplyAll(db, deleteTripCascade(handler.tripDelete.id))
  /\ state' = IF state.activeTripId = handler.tripDelete.id
              THEN [state EXCEPT !.activeTripId = ""] ELSE state
  /\ handler' = [handler EXCEPT !.tripDelete.at = "getTrips"]
  /\ UNCHANGED <<tx, outcome, bound, status, els, localStorage>>

\* the end of handleTripListClick's delete, loadAll having completed
TripDeleteDone(loaded) ==
  /\ state' = refreshUI(fillTripForm(loaded, null))
  /\ els' \in refreshUIEls(state', els, localStorage)
  /\ status' = "Trip deleted."
  /\ handler' = [handler EXCEPT !.tripDelete = NoTask]

\* getTrips has resolved: loadAll settles the active trip, and loadExpenses
\* reads it; without an active trip loadExpenses returns without a read of
\* the store, and the handler runs to its end
TripDeleteGotTrips ==
  /\ handler.tripDelete.at = "getTrips"
  /\ LET settled == loadAllTrips(state, db)
         trip == activeTrip(settled)
     IN  IF trip = undefined
         THEN TripDeleteDone(loadedExpenses(settled, db, trip))
         ELSE /\ state' = settled
              /\ handler' = [handler EXCEPT !.tripDelete.at = "loadExpenses",
                                            !.tripDelete.trip = trip]
              /\ UNCHANGED <<status, els>>
  /\ UNCHANGED <<db, tx, outcome, bound, localStorage>>

\* loadExpenses, and with it loadAll, has resolved
TripDeleteLoaded ==
  /\ handler.tripDelete.at = "loadExpenses"
  /\ TripDeleteDone(loadedExpenses(state, db, handler.tripDelete.trip))
  /\ UNCHANGED <<db, tx, outcome, bound, localStorage>>

\* handleExpenseListClick, delete-expense, up to its first await
ExpenseDeleteBegin ==
  /\ bound /\ handler.deleteExpense = NoTask
  /\ \E shown \in state.expenses :
       handler' = [handler EXCEPT !.deleteExpense =
                     [at |-> "deleteExpense", id |-> shown.id, trip |-> undefined]]
  /\ UNCHANGED <<db, tx, outcome, state, bound, status, els, localStorage>>

\* deleteExpense has resolved; loadExpenses reads the active trip and,
\* finding none, returns without a read of the store
ExpenseDeleteDone ==
  /\ handler.deleteExpense.at = "deleteExpense"
  /\ db' = ApplyAll(db, deleteExpense(handler.deleteExpense.id))
  /\ LET trip == activeTrip(state)
     IN  IF trip = undefined
         THEN /\ state' = loadedExpenses(state, db', trip)
              /\ status' = "Expense deleted."
              /\ handler' = [handler EXCEPT !.deleteExpense = NoTask]
         ELSE /\ handler' = [handler EXCEPT !.deleteExpense.at = "loadExpenses",
                                            !.deleteExpense.trip = trip]
              /\ UNCHANGED <<state, status>>
  /\ UNCHANGED <<tx, outcome, bound, els, localStorage>>

\* loadExpenses has resolved
ExpenseDeleteLoaded ==
  /\ handler.deleteExpense.at = "loadExpenses"
  /\ state' = loadedExpenses(state, db, handler.deleteExpense.trip)
  /\ status' = "Expense deleted."
  /\ handler' = [handler EXCEPT !.deleteExpense = NoTask]
  /\ UNCHANGED <<db, tx, outcome, bound, els, localStorage>>

\* the trips and the expense the page is loaded on, written at tick 1
StoredTrip(id, baseCurrency) ==
  [id |-> id, name |-> Text(50), startDate |-> "2026-10-31",
   endDate |-> "2026-10-31", baseCurrency |-> baseCurrency,
   currencies |-> << "JPY", "USD" >>, budgetEnabled |-> TRUE,
   budgetAmountBase |-> Whole(100), dailyBudgetAmountBase |-> undefined,
   createdAt |-> 1]

StoredExpense ==
  FormExpense("e1", "t1", 10500, "USD", 8200,
              amountBase(10500, 8200, StoredTrip("t1", "JPY")))
    @@ [dateTime |-> "2026-01-01T09:00", category |-> "Flights",
        payment |-> "Cash", note |-> << >>, location |-> << >>,
        tags |-> << >>, createdAt |-> 1, updatedAt |-> 1]

\* the fields of the expense form that the amounts leave out
TextFields ==
  [expDateTime |-> "", expCategory |-> "", expPayment |-> "",
   expNote |-> << >>, expLocation |-> << >>, expTags |-> << >>]

\* what is typed into the trip form: the stored trip in either base currency
ValidTripForm(baseCurrency) ==
  [name |-> Text(50), startDate |-> "2026-10-31", endDate |-> "2026-10-31",
   baseCurrency |-> baseCurrency, currencies |-> << "JPY", "usd" >>,
   budgetEnabled |-> TRUE, budgetAmount |-> Some(Whole(100)),
   dailyBudgetAmount |-> undefined]

ValidTripForms == {ValidTripForm("JPY"), ValidTripForm("usd")}

\* the valid forms, and a form for each message of validateTripForm
TripForms ==
  ValidTripForms \cup {
   [ValidTripForm("JPY") EXCEPT !.name = << " " >>],
   [ValidTripForm("JPY") EXCEPT !.name = Text(51)],
   [ValidTripForm("JPY") EXCEPT !.endDate = ""],
   [ValidTripForm("JPY") EXCEPT !.startDate = "2026-11-01"],
   [ValidTripForm("JPY") EXCEPT !.baseCurrency = ""],
   [ValidTripForm("JPY") EXCEPT !.budgetAmount = undefined]}

\* what is typed into the expense form
ValidExpenseForm ==
  [amount |-> Some(7500), currency |-> "USD", fx |-> Some(8200),
   dateTime |-> "2026-01-01T18:00", category |-> "Lodging", payment |-> "Cash",
   note |-> Text(120), location |-> Text(80), tags |-> << Text(25), << " " >> >>]

ExpenseForms ==
  {ValidExpenseForm,
   [ValidExpenseForm EXCEPT !.amount = undefined],
   [ValidExpenseForm EXCEPT !.category = ""],
   [ValidExpenseForm EXCEPT !.payment = ""],
   [ValidExpenseForm EXCEPT !.fx = Some(0)],
   [ValidExpenseForm EXCEPT !.note = Text(121)],
   [ValidExpenseForm EXCEPT !.location = Text(81)],
   [ValidExpenseForm EXCEPT !.tags = [k \in 1..11 |-> Text(1)]]}

\* the page loaded on the stores d
LoadedOn(d) ==
  /\ db = d
  /\ state = refreshUI(fillTripForm(loadAll(InitialState, db), null))
  /\ els \in refreshUIEls(state, TextFields @@ InitialEls, InitialLocalStorage)
  /\ localStorage = InitialLocalStorage
  /\ tx = NoTx
  /\ outcome = "resolved"
  /\ handler = NoTasks
  /\ bound = TRUE
  /\ status = ""

\* the page loaded on the stores as bootstrap leaves them
InitForms == LoadedOn(ApplyAll(EmptyDb, clearAllData))

\* the two forms, every message of their validation within reach
NextForms ==
  \/ \E form \in TripForms : TripSubmitBegin(form)
  \/ TripSubmitGotOld \/ TripSubmitGotExpenses
  \/ TripSubmitPut \/ TripSubmitLoaded
  \/ EditTripClick
  \/ \E typed \in ExpenseForms : ExpenseFormTyped(typed)
  \/ ExpenseSubmitBegin
  \/ ExpenseSubmitPut \/ ExpenseSubmitLoaded

SpecForms == InitForms /\ [][NextForms]_vars

\* the page loaded on one trip without expenses
InitEdits == LoadedOn(StoresWithTrip(StoredTrip("t1", "JPY")))

\* the two forms filled in validly, new records and edits
NextEdits ==
  \/ \E form \in ValidTripForms : TripSubmitBegin(form)
  \/ TripSubmitGotOld \/ TripSubmitGotExpenses
  \/ TripSubmitPut \/ TripSubmitLoaded
  \/ EditTripClick
  \/ ExpenseFormTyped(ValidExpenseForm)
  \/ ExpenseSubmitBegin \/ ExpenseSubmitGotExisting
  \/ ExpenseSubmitPut \/ ExpenseSubmitLoaded
  \/ EditExpenseBegin \/ EditExpenseGot

SpecEdits == InitEdits /\ [][NextEdits]_vars

\* the page loaded on two trips and one expense of the first
InitSwitch ==
  LoadedOn([StoresWithTrip(StoredTrip("t1", "JPY")) EXCEPT
              !.trips = {StoredTrip("t1", "JPY"), StoredTrip("t2", "USD")},
              !.expenses = {StoredExpense}])

\* the expense form, and the active trip switched meanwhile
NextSwitch ==
  \/ ExpenseSubmitBegin \/ ExpenseSubmitGotExisting
  \/ ExpenseSubmitPut \/ ExpenseSubmitLoaded
  \/ EditExpenseBegin \/ EditExpenseGot
  \/ ActiveTripChangeBegin \/ ActiveTripChangeLoaded

SpecSwitch == InitSwitch /\ [][NextSwitch]_vars

\* the page loaded on two trips with an expense each
InitCache ==
  LoadedOn([StoresWithTrip(StoredTrip("t1", "JPY")) EXCEPT
              !.trips = {StoredTrip("t1", "JPY"), StoredTrip("t2", "USD")},
              !.expenses = {StoredExpense,
                            [StoredExpense EXCEPT !.id = "e2", !.tripId = "t2"]}])

\* the active trip chosen, and trips and expenses deleted, the handlers
\* overlapping at their awaits
NextCache ==
  \/ ActiveTripChangeBegin \/ ActiveTripChangeLoaded
  \/ SetActiveBegin \/ SetActiveLoaded
  \/ TripDeleteBegin \/ TripDeleteCascaded
  \/ TripDeleteGotTrips \/ TripDeleteLoaded
  \/ ExpenseDeleteBegin \/ ExpenseDeleteDone \/ ExpenseDeleteLoaded

SpecCache == InitCache /\ [][NextCache]_vars

\* the app's trip and expense forms
NextTrips ==
  \/ PageLoad \/ MainLoaded
  \/ TripSubmit \/ TripSubmitted
  \/ TripSetActive \/ TripEdit
  \/ TripDelete \/ TripDeleted
  \/ ExpenseSubmit \/ ExpenseSubmitted
  \/ StatusTimeout
  \/ Transaction

SpecTrips == Init /\ [][NextTrips]_vars

----------------------------------------------------------------------------
(* Properties of the data layer, under Spec                                *)

\* the transaction in flight settles at this step
Settles == tx # NoTx /\ tx' = NoTx

Range(seq) == {seq[k] : k \in 1..Len(seq)}

\* C1: when deleteTripCascade(T) resolves, the store holds no trip with id T
\* and no expense with tripId T.
C1_CascadeComplete ==
  [][(tx.op = "deleteTripCascade" /\ Settles /\ outcome' = "resolved")
       => /\ \A t \in db'.trips : t.id # tx.arg
          /\ \A e \in db'.expenses : e.tripId # tx.arg]_vars

\* a cascade about to commit, for a stored trip with two expenses
C1_Witness ==
  /\ tx.op = "deleteTripCascade"
  /\ tx.pending = << >>
  /\ \E t \in db.trips : t.id = tx.arg
  /\ Cardinality({e \in db.expenses : e.tripId = tx.arg}) >= 2

\* trip T and the expenses of T are in the store `after` as they were in
\* `before`, or none of them is in `after`
AllOrNothing(after, before, T) ==
  \/ /\ {t \in after.trips : t.id = T} = {t \in before.trips : t.id = T}
     /\ {e \in after.expenses : e.tripId = T} = {e \in before.expenses : e.tripId = T}
  \/ /\ {t \in after.trips : t.id = T} = {}
     /\ {e \in after.expenses : e.tripId = T} = {}

\* C2: at every step of a deleteTripCascade(T), whether it resolves or fails,
\* the store other transactions read holds trip T with all the expenses it
\* had, or holds none of them.
C2_CascadeAtomic ==
  [][tx.op = "deleteTripCascade" => AllOrNothing(db', db, tx.arg)]_vars

\* half-way through a cascade: inside the transaction the trip is gone and
\* an expense of it is left, while the store still holds them all
C2_Witness ==
  /\ tx.op = "deleteTripCascade"
  /\ \A t \in tx.work.trips : t.id # tx.arg
  /\ \E t \in db.trips : t.id = tx.arg
  /\ \E e \in tx.work.expenses : e.tripId = tx.arg
  /\ Cardinality({e \in db.expenses : e.tripId = tx.arg}) >= 2

\* the complete state a restore of the payload leaves: the schema marker,
\* both settings lists, every trip and every expense of the payload
RestoreComplete(d, payload) ==
  /\ StoreGet(d, "meta", "schemaVersion") # undefined
  /\ StoreGet(d, "settings", "categories") # undefined
  /\ StoreGet(d, "settings", "paymentMethods") # undefined
  /\ Range(OrElse(payload.trips, << >>)) \subseteq d.trips
  /\ Range(OrElse(payload.expenses, << >>)) \subseteq d.expenses

\* C3: a restore is one atomic unit: each step of it leaves the store as it
\* was or in the complete new state, also when a put of the payload's loop
\* fails.
C3_RestoreAtomic ==
  [][tx.op = "restoreBackup"
       => (db' = db \/ RestoreComplete(db', tx.arg))]_vars

\* C4: when a mutating operation fails (a request fails, the transaction
\* aborts, or the handler throws after it has made some writes), its promise
\* rejects and none of its writes is in the store.
C4_RejectedWritesNothing ==
  [][(Settles /\ outcome' = "rejected") => db' = db]_vars

\* the store a resolved restoreBackup(payload) leaves, key by key
Stored(d, store, key) == {r.value : r \in StoreGet(d, store, key)}

\* C8: a restore of a payload with both arrays and neither config nor
\* schemaVersion resolves with the default lists, SCHEMA_VERSION and exactly
\* the payload's trips and expenses, whatever the store held; each of
\* categories, paymentMethods and schemaVersion falls back on its own.
C8_RestoreDefaults ==
  [][(tx.op = "restoreBackup" /\ Settles /\ outcome' = "resolved")
       => LET payload == tx.arg
              categories == OptionalField(payload.config, "categories")
              payments == OptionalField(payload.config, "paymentMethods")
          IN  /\ Stored(db', "meta", "schemaVersion") =
                   IF payload.schemaVersion = undefined THEN {SCHEMA_VERSION}
                   ELSE payload.schemaVersion
              /\ Stored(db', "settings", "categories") =
                   IF categories = undefined THEN {DEFAULT_SETTINGS.categories}
                   ELSE categories
              /\ Stored(db', "settings", "paymentMethods") =
                   IF payments = undefined THEN {DEFAULT_SETTINGS.paymentMethods}
                   ELSE payments
              /\ payload.trips # undefined
                   => db'.trips = Range(ValueOf(payload.trips))
              /\ payload.expenses # undefined
                   => db'.expenses = Range(ValueOf(payload.expenses))]_vars

\* a restore without config and schemaVersion about to commit over a store
\* that holds other trips and custom lists
C8_Witness ==
  /\ tx.op = "restoreBackup"
  /\ tx.pending = << >> /\ ~tx.thrown
  /\ tx.arg.config = undefined /\ tx.arg.schemaVersion = undefined
  /\ tx.arg.trips # undefined /\ tx.arg.expenses # undefined
  /\ ValueOf(tx.arg.trips) # << >>
  /\ db.trips # {} /\ db.trips # Range(ValueOf(tx.arg.trips))
  /\ Stored(db, "settings", "categories") = {CustomCategories}

----------------------------------------------------------------------------
(* Properties of the app's restore flow, under SpecRestore                 *)

\* C5: every expense in the store refers to a trip in the store.
C5_ReferentialIntegrity ==
  \A e \in db.expenses : \E t \in db.trips : t.id = e.tripId

\* both arrays are in the document
HasArrays(payload) ==
  /\ payload.trips \in {Some(ts) : ts \in SeqsUpTo(PayloadTrips, MaxPayloadRecs)}
  /\ payload.expenses \in {Some(es) : es \in SeqsUpTo(PayloadExpenses, MaxPayloadRecs)}

\* C6: a backup document that lacks the trips array or the expenses array
\* is never held for restore and no restore transaction ever runs on one, so
\* no store is cleared or written for it.
C6_RestoreShapeValidated ==
  /\ \A payload \in state.pendingRestore : HasArrays(payload)
  /\ tx.op = "restoreBackup" => HasArrays(tx.arg)

\* a document without the arrays has been refused while the stores hold a
\* trip and an expense
C6_Witness ==
  /\ status = "Backup must contain trips and expenses arrays."
  /\ state.pendingRestore = undefined
  /\ tx = NoTx
  /\ db.trips # {} /\ db.expenses # {}

\* the app is at rest: export reads the stores as they are
AtRest == bound /\ handler = Idle /\ tx = NoTx

\* C7: restoring the payload collectBackupPayload builds yields a store with
\* the same trips, the same expenses and the same settings lists.
C7_BackupRoundTrip ==
  AtRest =>
    LET restored == ApplyAll(db, restoreBackup(collectBackupPayload(state, db)))
    IN  /\ restored.trips = db.trips
        /\ restored.expenses = db.expenses
        /\ restored.settings = db.settings

----------------------------------------------------------------------------
(* Properties of the settings, under SpecSettings                          *)

\* C9: once bootstrap has written the schema marker, both settings lists
\* are stored and neither is empty.
C9_SettingsNonEmpty ==
  db.meta # {} =>
    \A key \in {"categories", "paymentMethods"} :
      /\ Stored(db, "settings", key) # {}
      /\ << >> \notin Stored(db, "settings", key)

\* C10: a settings update with an empty list writes nothing: the step that
\* refuses it changes no store and starts no transaction, and no
\* saveSettings transaction ever carries an empty list.
C10_RejectedUpdateWritesNothing ==
  [][/\ (status' = "Categories and payment methods must not be empty."
           /\ status' # status) => (db' = db /\ tx' = tx)
     /\ tx'.op = "saveSettings"
          => tx'.arg.categories # << >> /\ tx'.arg.paymentMethods # << >>]_vars

\* an update has been refused while custom lists are stored
C10_Witness ==
  /\ status = "Categories and payment methods must not be empty."
  /\ tx = NoTx
  /\ Stored(db, "settings", "categories") = {<< "Food" >>}
  /\ Stored(db, "settings", "paymentMethods") = {<< "Card" >>}

----------------------------------------------------------------------------
(* Properties of bootstrap, under SpecBootstrap                            *)

BootstrapKeys ==
  { <<"meta", "schemaVersion", SCHEMA_VERSION>>,
    <<"settings", "categories", DEFAULT_SETTINGS.categories>>,
    <<"settings", "paymentMethods", DEFAULT_SETTINGS.paymentMethods>> }

\* C11: initializeDb on a store that has the marker and both lists changes
\* nothing, and a resolved initializeDb leaves all three keys there, so a
\* second call changes nothing and edited settings are never reset.
C11_BootstrapIdempotent ==
  [][(tx.op = "initializeDb" /\ Settles /\ outcome' = "resolved")
       => /\ \A k \in BootstrapKeys : Stored(db', k[1], k[2]) # {}
          /\ (\A k \in BootstrapKeys : Stored(db, k[1], k[2]) # {}) => db' = db]_vars

\* an initializeDb about to commit over edited lists and an older marker
C11_Witness ==
  /\ tx.op = "initializeDb"
  /\ tx.pending = << >>
  /\ Stored(db, "meta", "schemaVersion") = {OldSchemaVersion}
  /\ Stored(db, "settings", "categories") = {CustomCategories}
  /\ Stored(db, "settings", "paymentMethods") = {CustomPayments}

\* C12: a resolved initializeDb has written the default for exactly the
\* keys that were absent and left every key that was there, and the trips
\* and expenses, as they were.
C12_BootstrapSeedsEachKey ==
  [][(tx.op = "initializeDb" /\ Settles /\ outcome' = "resolved")
       => /\ \A k \in BootstrapKeys :
               Stored(db', k[1], k[2]) =
                 IF Stored(db, k[1], k[2]) = {} THEN {k[3]}
                 ELSE Stored(db, k[1], k[2])
          /\ db'.trips = db.trips /\ db'.expenses = db.expenses]_vars

\* an initializeDb about to commit where the categories are edited and the
\* payment methods are absent
C12_Witness ==
  /\ tx.op = "initializeDb"
  /\ tx.pending = << >>
  /\ Stored(db, "settings", "categories") = {CustomCategories}
  /\ Stored(db, "settings", "paymentMethods") = {}
  /\ Stored(tx.work, "settings", "paymentMethods") = {DEFAULT_SETTINGS.paymentMethods}

----------------------------------------------------------------------------
(* Properties of the schema marker, under Spec                             *)

\* C13: once the schemaVersion marker is stored, no step of an operation
\* other than restoreBackup changes the meta store.
C13_MarkerWrittenOnce ==
  [][(db.meta # {} /\ tx.op # "restoreBackup") => db'.meta = db.meta]_vars

----------------------------------------------------------------------------
(* Properties of the trip form, under SpecTrips                            *)

BaseCurrencyMessage ==
  "Base currency cannot be changed once expenses exist for this trip in v1."

\* C14: a trip update that changes the base currency of a stored trip with
\* at least one expense writes nothing: the step that refuses it changes no
\* store and starts no transaction, and no upsertTrip starts for a trip
\* that is stored with another base currency and has an expense.
C14_BaseCurrencyGuard ==
  [][/\ (status' = BaseCurrencyMessage /\ status' # status)
          => (db' = db /\ tx' = tx)
     /\ (tx = NoTx /\ tx'.op = "upsertTrip")
          => \A t \in db.trips :
               (t.id = tx'.arg.id /\ t.baseCurrency # tx'.arg.baseCurrency)
                 => \A e \in db.expenses : e.tripId # t.id]_vars

\* a change of base currency has been refused for the trip in the form,
\* which is stored with an expense
C14_Witness ==
  /\ status = BaseCurrencyMessage
  /\ tx = NoTx
  /\ \E t \in db.trips :
       /\ t.id = state.editingTripId
       /\ \E e \in db.expenses : e.tripId = t.id

----------------------------------------------------------------------------
(* Properties of the conversion, under SpecConvert                         *)

DecimalsFor(baseCurrency) == IF baseCurrency = "JPY" THEN 0 ELSE 2

\* amount * fx rounded half-up to the decimals, in exact arithmetic: the
\* product of the numerals counts millionths
HalfUp(amount, fx, decimals) ==
  LET product == BigMul(BigOf(amount), BigOf(fx))
  IN  IF decimals = 0
      THEN Whole(BigToInt(BigDiv(BigDiv(BigAdd(product, BigOf(500000)), 1000), 1000)))
      ELSE Hundredths(BigToInt(BigDiv(BigAdd(product, BigOf(5000)), 10000)))

\* C17: the base amount the form computes is amountOriginal * fxRateToBase
\* rounded half-up to 0 decimals for JPY and to 2 decimals otherwise.
C17_ConversionRounding ==
  els.amountBasePreview.text = "amount" =>
    LET trip == ValueOf(activeTrip(state))
        amount == NumberOf(els.expAmountOriginal)
        fx == fxRateToBase(els.expCurrency, trip, els.expFx)
    IN  els.amountBasePreview.amountBase =
          HalfUp(amount, fx, DecimalsFor(trip.baseCurrency))

----------------------------------------------------------------------------
(* Properties of stored amounts, under SpecAmounts and SpecExpenses        *)

\* the trips that own the expense
OwningTrips(d, e) == {t \in d.trips : t.id = e.tripId}

\* C15: every stored expense's base amount is its original amount times
\* its rate, rounded to the decimals of its trip's base currency, whichever
\* write path (form or restore) stored it.
C15_AmountBaseDerived ==
  \A e \in db.expenses : \A t \in OwningTrips(db, e) :
    e.amountBase = HalfUp(e.amountOriginal, e.fxRateToBase, DecimalsFor(t.baseCurrency))

\* C16: an expense the form writes in its trip's base currency has the
\* rate 1 and a base amount equal to its original amount.
C16_BaseCurrencyUnconverted ==
  (tx.op = "upsertExpense" /\ handler.name = "handleExpenseSubmit") =>
    \A t \in OwningTrips(db, tx.arg) :
      tx.arg.currency = t.baseCurrency =>
        /\ tx.arg.fxRateToBase = Whole(1)
        /\ tx.arg.amountBase = tx.arg.amountOriginal

\* the preview shows a conversion of the inputs the stored expense has
SameInputs(e, t) ==
  /\ els.amountBasePreview.text = "amount"
  /\ activeTrip(state) # undefined
  /\ ValueOf(activeTrip(state)).baseCurrency = t.baseCurrency
  /\ NumberOf(els.expAmountOriginal) = e.amountOriginal
  /\ fxRateToBase(els.expCurrency, ValueOf(activeTrip(state)), els.expFx) = e.fxRateToBase

----------------------------------------------------------------------------
(* Properties of the dashboard, under SpecDashboard                        *)

RECURSIVE SumValues(_, _)
\* the sum of the values of the first n rows, added in the rows' order
SumValues(rows, n) ==
  IF n = 0 THEN Double(0) ELSE Plus(SumValues(rows, n - 1), rows[n][2])

Breakdowns == << els.categoryTable, els.paymentTable, els.dailyChart >>

KeyOfItem(item, key) == IF item[key] = "" THEN "Unknown" ELSE item[key]

RECURSIVE ExactTotal(_, _, _, _)
\* the sum of amountBase over the first n items that have the key
ExactTotal(items, key, k, n) ==
  IF n = 0 THEN 0
  ELSE ExactTotal(items, key, k, n - 1)
         + (IF KeyOfItem(items[n], key) = k THEN items[n].amountBase ELSE 0)

FirstEncounter(items, key, k) ==
  CHOOSE n \in DOMAIN items :
    /\ KeyOfItem(items[n], key) = k
    /\ \A m \in 1..(n - 1) : KeyOfItem(items[m], key) # k

\* the table is the group-by of the items: one row per key, its total the
\* sum of the amounts (compared at the decimals of the base currency), the
\* rows by the sums descending and equal sums by first encounter
GroupedAsStated(table, items, key, baseCurrency) ==
  LET keys == {KeyOfItem(items[n], key) : n \in DOMAIN items}
      Total(k) == ExactTotal(items, key, k, Len(items))
  IN  /\ {table[i][1] : i \in DOMAIN table} = keys
      /\ Len(table) = Cardinality(keys)
      /\ \A i \in DOMAIN table :
           roundBaseAmount(table[i][2], baseCurrency) = Total(table[i][1])
      /\ \A i, j \in DOMAIN table :
           i < j =>
             \/ Total(table[i][1]) > Total(table[j][1])
             \/ /\ Total(table[i][1]) = Total(table[j][1])
                /\ FirstEncounter(items, key, table[i][1])
                     < FirstEncounter(items, key, table[j][1])

\* C20: aggregateBy returns one pair per distinct key, each total the sum
\* of amountBase of the expenses with that key, ordered by total
\* descending, pairs with equal totals in the order of first encounter.
C20_GroupByOrdering ==
  els.totalSpent # undefined =>
    /\ GroupedAsStated(els.categoryTable, filteredExpenses(state), "category",
                       ValueOf(activeTrip(state)).baseCurrency)
    /\ GroupedAsStated(els.paymentTable, filteredExpenses(state), "payment",
                       ValueOf(activeTrip(state)).baseCurrency)

RECURSIVE ExactDayTotal(_, _, _)
\* the sum of amountBase over the first n items dated on the day
ExactDayTotal(items, day, n) ==
  IF n = 0 THEN 0
  ELSE ExactDayTotal(items, day, n - 1)
         + (IF SliceDay(items[n].dateTime) = day THEN items[n].amountBase ELSE 0)

----------------------------------------------------------------------------
(* Properties of the filters, under SpecFilters                            *)

\* note, location and tags joined by spaces
SearchBag(exp) == Join(<< exp.note, exp.location >> \o exp.tags)

\* the criteria of the filters other than the search
MeetsSelections(exp, filters) ==
  /\ filters.startDate # "" =>
       ~DayLess(SliceDay(exp.dateTime), filters.startDate)
  /\ filters.endDate # "" =>
       ~DayLess(filters.endDate, SliceDay(exp.dateTime))
  /\ filters.category # "All" => exp.category = filters.category
  /\ filters.payment # "All" => exp.payment = filters.payment

\* the listed expenses that meet the selections and contain the text
Matching(text) ==
  LET listed == listedExpenses(state.expenses)
      Meets(exp) ==
        /\ MeetsSelections(exp, state.filters)
        /\ text # << >> => Includes(ToLowerCase(SearchBag(exp)), ToLowerCase(text))
  IN  SelectSeq(listed, Meets)

\* C22, as stated: the expense list holds exactly the loaded expenses that
\* meet every active criterion, the search text being contained, whatever
\* its case, in note, location and tags joined by spaces; in input order.
C22_FilterSemantics ==
  els.expenseList = Matching(state.filters.search)

\* C22, corrected: the same, the search text being taken without the
\* spaces at its ends (a search of spaces alone imposes no restriction).
C22_FilterSemanticsTrimmed ==
  els.expenseList = Matching(TrimText(state.filters.search))

\* every filter is set, the search has a space at an end, and the list
\* shows one of two loaded expenses
C22_Witness ==
  /\ state.filters.search \in {<< " ", "a" >>, << "b", " " >>}
  /\ state.filters.endDate # ""
  /\ state.filters.category # "All"
  /\ state.filters.payment # "All"
  /\ Cardinality(state.expenses) = 2
  /\ Len(els.expenseList) = 1

----------------------------------------------------------------------------
(* Properties of the budget panel, under SpecBudget                        *)

RECURSIVE ExactSum(_, _)
\* the sum of amountBase over the first n items, in thousandths
ExactSum(items, n) ==
  IF n = 0 THEN 0 ELSE ExactSum(items, n - 1) + items[n].amountBase

\* C23: the budget remaining is budgetAmountBase less the total of
\* amountBase of the filtered expenses, shown as under budget when it is
\* zero or more and as over budget when it is below zero.
C23_BudgetRemaining ==
  els.budgetPanel.label = "Budget Remaining" =>
    LET items == filteredExpenses(state)
        trip == ValueOf(activeTrip(state))
        remaining == trip.budgetAmountBase - ExactSum(items, Len(items))
        shown == roundBaseAmount(els.budgetPanel.remaining.magnitude, trip.baseCurrency)
    IN  /\ shown = (IF remaining < 0 THEN 0 - remaining ELSE remaining)
        /\ els.budgetPanel.remainingClass = "positive" <=> remaining >= 0

\* the example of the claim: a JPY trip with a budget of 100000 and one
\* expense of 7500 has 92500 remaining, under budget
C23_Example ==
  LET trip == ValueOf(activeTrip(state))
  IN  (/\ els.budgetPanel.label = "Budget Remaining"
       /\ trip.baseCurrency = "JPY"
       /\ trip.budgetAmountBase = Whole(100000)
       /\ Len(filteredExpenses(state)) = 1
       /\ filteredExpenses(state)[1].amountBase = Whole(7500))
        => /\ els.budgetPanel.remaining = [negative |-> FALSE, magnitude |-> Double(Whole(92500))]
           /\ els.budgetPanel.remainingClass = "positive"

C23_ExampleReached ==
  /\ els.budgetPanel.label = "Budget Remaining"
  /\ ValueOf(activeTrip(state)).baseCurrency = "JPY"
  /\ state.filters.payment = "Cash"
  /\ Len(filteredExpenses(state)) = 1
  /\ filteredExpenses(state)[1].amountBase = Whole(7500)

\* the number of calendar days from startDate to endDate, both included
InclusiveDays(trip) == Rank(Calendar, trip.endDate) - Rank(Calendar, trip.startDate) + 1

\* C24: whenever the budget panel is rendered for a trip (startDate <=
\* endDate) at some instant in some time zone, the days elapsed are at
\* least 1; they are 1 before the trip's start and, at or after the trip's
\* end, the number of calendar days from startDate to endDate inclusive.
C24_DaysElapsed ==
  [][\A clock \in BudgetClocks :
       LET trip == ValueOf(activeTrip(state'))
           panel == els'.budgetPanel
       IN  (/\ panel.label = "Budget Remaining"
            /\ panel = budgetPanel(trip, ValueOf(els'.totalSpent), clock))
             => /\ panel.daysElapsed >= 1
                /\ clock.now < DateOf(trip.startDate, 0, clock.timeZone)
                     => panel.daysElapsed = 1
                /\ clock.now >= DateOf(trip.endDate, 23 * 60 + 59, clock.timeZone)
                     => panel.daysElapsed = InclusiveDays(trip)]_vars

----------------------------------------------------------------------------
(* Properties of put and of the completion of operations, under Spec and   *)
(* SpecFair                                                                *)

\* the store of an upsert operation
StoreOfPut(op) == IF op = "upsertTrip" THEN "trips" ELSE "expenses"

\* C27: when upsertTrip(r) or upsertExpense(r) resolves, the store holds
\* exactly one record with the id of r, which is r, every record with
\* another id and every other store is as before, and the same put done
\* again leaves the store as it is.
C27_PutIdempotent ==
  [][(tx.op \in {"upsertTrip", "upsertExpense"} /\ Settles /\ outcome' = "resolved")
       => LET store == StoreOfPut(tx.op)
          IN  /\ {r \in db'[store] : r.id = tx.arg.id} = {tx.arg}
              /\ {r \in db'[store] : r.id # tx.arg.id}
                   = {r \in db[store] : r.id # tx.arg.id}
              /\ \A other \in StoreNames \ {store} : db'[other] = db[other]
              /\ ApplyAll(db', << PutReq(store, tx.arg) >>) = db']_vars

\* an upsertTrip about to commit a record that replaces a different one
\* with the same id, beside a trip with another id
C27_Witness ==
  /\ tx.op = "upsertTrip"
  /\ tx.pending = << >>
  /\ \E t \in db.trips : t.id = tx.arg.id /\ t # tx.arg
  /\ \E t \in db.trips : t.id # tx.arg.id
  /\ tx.arg \in tx.work.trips

\* C28: the promise an operation has returned is eventually resolved or
\* rejected, if the storage's events arrive.
C28_OperationsSettle ==
  (outcome = "pending") ~> (outcome \in {"resolved", "rejected"})

\* a cascade whose cursor has deleted one expense of the trip and has
\* another to go
C28_Witness ==
  /\ tx.op = "deleteTripCascade"
  /\ outcome = "pending"
  /\ tx.pending # << >>
  /\ Head(tx.pending).kind = "cursor"
  /\ Cardinality(IndexTripId(db, tx.arg)) >= 2
  /\ Cardinality(IndexTripId(tx.work, tx.arg)) = 1

----------------------------------------------------------------------------
(* C25: whatever the trip form and the expense form write, a record that   *)
(* was in the store before the write keeps its createdAt, and a write made *)
(* while editing adds no record under another id; the updatedAt of a       *)
(* rewritten expense is not earlier than the one it replaces, later while  *)
(* the clock still ticks, and never earlier than the record's createdAt.   *)

\* the record of the store with the id, as a set
WithId(records, id) == {r \in records : r.id = id}

C25_CreatedAtImmutable ==
  [][/\ \A new \in db'.trips : \A old \in WithId(db.trips, new.id) :
          new.createdAt = old.createdAt
     /\ \A new \in db'.expenses : \A old \in WithId(db.expenses, new.id) :
          /\ new.createdAt = old.createdAt
          /\ new.updatedAt >= old.updatedAt
          /\ new # old /\ old.updatedAt < MaxTime => new.updatedAt > old.updatedAt
     /\ \A new \in db'.expenses : new.updatedAt >= new.createdAt
     /\ handler.tripSubmit.at = "upsertTrip" /\ handler.tripSubmit.wasEditing
          /\ handler.tripSubmit.old # undefined
        => {t.id : t \in db'.trips} = {t.id : t \in db.trips}
     /\ handler.expenseSubmit.at = "upsertExpense" /\ handler.expenseSubmit.wasEditing
        => {e.id : e \in db'.expenses} = {e.id : e \in db.expenses}]_vars

\* an expense has been edited after the tick of its first write, and the
\* trip's base currency has been changed after the tick of its first write
C25_Witness ==
  /\ \E e \in db.expenses : e.updatedAt > e.createdAt
  /\ \E t \in db.trips : t.baseCurrency = "USD" /\ t.createdAt = 1
       /\ status = "Trip updated."

----------------------------------------------------------------------------
(* C26: a submission of the trip form or of the expense form goes on to    *)
(* its store calls only with a record that meets the constraints of the    *)
(* validation, so a failing submission writes nothing, and every trip and  *)
(* expense the forms put in the store meets them.                          *)

TripConstraints(trip) ==
  /\ Len(trip.name) >= 1 /\ Len(trip.name) <= 50
  /\ trip.startDate # "" /\ trip.endDate # ""
  /\ Rank(Calendar, trip.startDate) <= Rank(Calendar, trip.endDate)
  /\ trip.baseCurrency # ""
  /\ \E k \in DOMAIN trip.currencies : trip.currencies[k] = trip.baseCurrency
  /\ trip.budgetEnabled => trip.budgetAmountBase > 0

ExpenseConstraints(exp, trip) ==
  /\ exp.amountOriginal > 0
  /\ exp.currency # "" /\ exp.dateTime # ""
  /\ exp.category # "" /\ exp.payment # ""
  /\ exp.currency # trip.baseCurrency => exp.fxRateToBase > 0
  /\ Len(exp.note) <= 120
  /\ Len(exp.location) <= 80
  /\ Len(exp.tags) <= 10

C26_ValidationPrecedesWrites ==
  [][/\ handler'.tripSubmit # NoTask
          => TripConstraints(handler'.tripSubmit.newTrip)
     /\ handler.expenseSubmit = NoTask /\ handler'.expenseSubmit # NoTask
          => ExpenseConstraints(handler'.expenseSubmit.exp,
                                ValueOf(handler'.expenseSubmit.trip))
     /\ \A trip \in db'.trips \ db.trips :
          /\ TripConstraints(trip)
          /\ handler.tripSubmit.at = "upsertTrip"
          /\ trip = handler.tripSubmit.newTrip
     /\ \A exp \in db'.expenses \ db.expenses :
          /\ handler.expenseSubmit.at = "upsertExpense"
          /\ exp = handler.expenseSubmit.exp
          /\ ExpenseConstraints(exp, ValueOf(handler.expenseSubmit.trip))
     /\ status' \in {"Trip name is required (1-50 chars).",
                     "Start and end date are required.",
                     "Start date must be before or equal to end date.",
                     "Base currency is required.",
                     "Budget amount is required when budget is enabled.",
                     "Amount must be greater than 0.",
                     "Category is required.",
                     "Payment method is required.",
                     "FX rate must be greater than 0 for non-base currency.",
                     "Note must be 120 chars or less.",
                     "Location must be 80 chars or less."}
          /\ status' # status
          => db' = db /\ handler' = handler]_vars

\* the submission of an expense with a note of 121 characters has been
\* refused, and a trip and an expense have been written through the forms
C26_Witness ==
  /\ db.trips # {} /\ db.expenses # {}
  /\ status = "Note must be 120 chars or less."

----------------------------------------------------------------------------
(* C29: whatever the order of the steps of the edit click, of the change   *)
(* of the active trip and of the expense submission, an expense saved      *)
(* under an id the store already holds keeps the tripId stored under it.   *)

C29_EditKeepsTrip ==
  [][\A new \in db'.expenses : \A old \in WithId(db.expenses, new.id) :
       new.tripId = old.tripId]_vars

----------------------------------------------------------------------------
(* C30: whatever the order of the steps of the trip submission and of the  *)
(* expense submission, the store never holds a trip whose base currency    *)
(* has been changed beside an expense of the trip converted for the base   *)
(* currency the trip had before.  The trip is first written with the base  *)
(* currency JPY, so a trip with another one has had it changed.            *)

\* the expense's rate and amountBase are the ones the conversion gives for
\* the base currency
ConvertedFor(exp, baseCurrency) ==
  LET trip == [baseCurrency |-> baseCurrency]
  IN  /\ exp.fxRateToBase = fxRateToBase(exp.currency, trip, Some(exp.fxRateToBase))
      /\ exp.amountBase = amountBase(exp.amountOriginal, exp.fxRateToBase, trip)

C30_GuardUnderInterleaving ==
  \A trip \in db.trips :
    trip.baseCurrency # "JPY"
      => \A exp \in IndexTripId(db, trip.id) :
           ConvertedFor(exp, trip.baseCurrency)

----------------------------------------------------------------------------
(* Properties of the cascade's frame and of the cascade of an absent trip, *)
(* under Spec                                                              *)

\* C33: when deleteTripCascade(T) settles, every trip with another id than
\* T, every expense with another tripId than T, and the whole meta and
\* settings stores are as they were before the call.
C33_CascadeFrame ==
  [][(tx.op = "deleteTripCascade" /\ Settles)
       => /\ {t \in db'.trips : t.id # tx.arg} = {t \in db.trips : t.id # tx.arg}
          /\ {e \in db'.expenses : e.tripId # tx.arg}
               = {e \in db.expenses : e.tripId # tx.arg}
          /\ db'.meta = db.meta
          /\ db'.settings = db.settings]_vars

\* a cascade about to commit, having removed the trip and an expense of
\* it, beside another trip, an expense of another trip and the settings
C33_Witness ==
  /\ tx.op = "deleteTripCascade"
  /\ tx.pending = << >>
  /\ tx.work # db
  /\ \E t \in db.trips : t.id = tx.arg
  /\ \E e \in db.expenses : e.tripId = tx.arg
  /\ \E t \in db.trips : t.id # tx.arg
  /\ \E e \in db.expenses : e.tripId # tx.arg
  /\ db.meta # {} /\ db.settings # {}

RECURSIVE Committed(_, _)
\* the store a transaction commits that starts on d with the requests
\* pending and in which every request succeeds
Committed(d, pending) ==
  IF pending = << >> THEN d
  ELSE LET work == ApplyReq(d, Head(pending))
       IN  Committed(work, Tail(pending) \o OnSuccess(work, Head(pending)))

\* C34: deleteTripCascade(T) for an id T without a trip record does not
\* throw; when it resolves, no expense with tripId T is left and nothing
\* else has changed; and a second deleteTripCascade(T) on the store a
\* resolved one leaves gives that same store.
C34_CascadeOfAbsentTrip ==
  [][(tx.op = "deleteTripCascade" /\ Settles)
       => /\ ~tx.thrown
          /\ (outcome' = "resolved" /\ \A t \in db.trips : t.id # tx.arg)
               => /\ \A e \in db'.expenses : e.tripId # tx.arg
                  /\ db' = [db EXCEPT !.expenses = {e \in @ : e.tripId # tx.arg}]
          /\ outcome' = "resolved"
               => Committed(db', deleteTripCascade(tx.arg)) = db']_vars

\* a cascade about to commit for an id without a trip record, having
\* removed the two expenses stored under that tripId
C34_Witness ==
  /\ tx.op = "deleteTripCascade"
  /\ tx.pending = << >>
  /\ \A t \in db.trips : t.id # tx.arg
  /\ db.trips # {}
  /\ Cardinality({e \in db.expenses : e.tripId = tx.arg}) >= 2
  /\ \A e \in tx.work.expenses : e.tripId # tx.arg

----------------------------------------------------------------------------
(* The expense list and the active trip, under SpecCache                   *)

\* no call of a handler is in flight
Quiescent == handler = NoTasks

\* the stored expenses of the active trip, none without an active trip
ExpensesOfActiveTrip ==
  IF activeTrip(state) = undefined THEN {}
  ELSE getExpensesByTrip(db, state.activeTripId)

\* C31: whenever no handler is in flight, state.expenses holds exactly the
\* stored expenses whose tripId is state.activeTripId, and none when there
\* is no active trip, whatever the order in which overlapping handlers and
\* their loadExpenses calls have completed
C31_CacheMatchesActiveTrip == Quiescent => state.expenses = ExpensesOfActiveTrip

\* the active trip is none or one of state.trips, and none only without trips
ActiveTripValid(s) ==
  /\ s.activeTripId = "" \/ s.activeTripId \in TripIdsOf(s.trips)
  /\ s.activeTripId = "" => s.trips = << >>

\* the loadAll of the delete handler completes, and the handler with it
LoadAllCompletes == handler.tripDelete # NoTask /\ handler'.tripDelete = NoTask

\* loadAll settles the active trip, none being active
SettlesOnFirst ==
  handler.tripDelete.at = "getTrips" /\ handler'.tripDelete.at # "getTrips"
    /\ state.activeTripId = ""

\* C32: whenever loadAll has completed, state.activeTripId is empty or the
\* id of a trip in state.trips, and empty only when state.trips is empty;
\* when loadAll finds no active trip, as after the deletion of the active
\* one, the first remaining trip becomes active, or none when none remains
C32_ActiveTripValidity ==
  [][/\ LoadAllCompletes => ActiveTripValid(state')
     /\ SettlesOnFirst =>
          state'.activeTripId = IF getTrips(db) = << >> THEN ""
                                ELSE getTrips(db)[1].id]_vars

====
